---- MODULE Spec2Model ----
(***************************************************************************)
(* A model of the mikan validator node: the application loop that serves   *)
(* the consensus engine (app.rs), its state (state.rs), the persistent     *)
(* store (store.rs), proposal streaming and reassembly, and the            *)
(* transaction pool.                                                       *)
(*                                                                         *)
(* Bytes are modelled in units: a byte string is a sequence of tagged      *)
(* units, and the encoding of a block is three units long, so that with    *)
(* CHUNK_SIZE = 2 units a block is streamed in two Data chunks.            *)
(* Hashes (Keccak-256, SHA3-256, SipHash) are modelled as injective        *)
(* constructors, signatures as (signer, message) pairs.                    *)
(***************************************************************************)
EXTENDS Integers, Sequences, FiniteSets, TLC

VARIABLES
    decided_values,        \* DECIDED_VALUES_TABLE:       height -> Value
    certificates,          \* CERTIFICATES_TABLE:         height -> CommitCertificate
    undecided_proposals,   \* UNDECIDED_PROPOSALS_TABLE:  <<height, round>> -> ProposedValue
    decided_block_data,    \* DECIDED_BLOCK_DATA_TABLE:   height -> bytes
    undecided_block_data,  \* UNDECIDED_BLOCK_DATA_TABLE: <<height, round>> -> bytes
    current_height,        \* State.current_height
    current_round,         \* State.current_round
    current_proposer,      \* State.current_proposer
    stream_nonce,          \* State.stream_nonce
    streams_map,           \* State.streams_map
    transaction_pool,      \* State.transaction_pool
    status,                \* run(): "running", "failed" (returned Err) or "panicked"
    last,                  \* the message (or store call) handled last
    reply,                 \* the reply sent on the last message's reply handle
    published,             \* the stream messages published by the last GetValue
    network,               \* stream messages peers have put on the wire
    inserted,              \* history: per stream, the sequence numbers handed to
                           \* insert and the number of times it returned Some
    pool_lock,             \* TransactionPool.transactions: the thread holding the Mutex
    threads,               \* each thread calling the pool: its call and how far it got
    channel,               \* channels.consensus: the messages sent and not yet received
    closed,                \* channels.consensus: the sender has been dropped
    sent,                  \* history: the messages the engine sent
    handled,               \* history: the messages run() took from the channel
    commit_pc              \* State::commit: idle, or how far the commit has got

store_vars == <<decided_values, certificates, undecided_proposals,
                decided_block_data, undecided_block_data>>
app_vars == <<current_height, current_round, current_proposer, stream_nonce,
              streams_map, inserted, transaction_pool>>
io_vars == <<status, last, reply, published, network>>
conc_vars == <<pool_lock, threads>>
chan_vars == <<channel, closed, sent, handled>>
step_vars == <<commit_pc>>
env_vars == <<conc_vars, chan_vars, step_vars>>
vars == <<store_vars, app_vars, io_vars, env_vars>>

----------------------------------------------------------------------------
(* Bounds of the model *)

MaxHeight == 2        \* heights the engine and the peers talk about: 1..MaxHeight
MaxRound == 1         \* rounds: 0..MaxRound
MaxPool == 1          \* transactions the pool holds at most
MaxPeerStreams == 1   \* proposal streams peers put on the wire
MaxNonce == 1         \* proposals this node streams
MaxData == 3          \* units of the byte strings streamed in the round trip
MaxEntries == 3       \* entries written to the store when it is driven alone
MaxDecided == 28      \* heights decided in a row when the history is walked
MaxSent == 3          \* messages the engine sends on the consensus channel
MaxCount == 2         \* largest count asked of get_transactions

(* Program constants *)

MAX_HISTORY_LENGTH == 25   \* state.rs: maximum number of blocks kept
CHUNK_SIZE == 2            \* state.rs: 128 KiB, here in units of 64 KiB

Nil == -1                  \* Round::Nil, as_i64() = -1
Heights == 1..MaxHeight
Rounds == 0..MaxRound
NoReply == [kind |-> "none"]
None == [kind |-> "None"]

----------------------------------------------------------------------------
(* Partial maps (tables) *)

EmptyMap == [k \in {} |-> 0]
Put(f, k, v) == [x \in (DOMAIN f) \cup {k} |-> IF x = k THEN v ELSE f[x]]
Remove(f, K) == [x \in (DOMAIN f) \ K |-> f[x]]
Get(f, k) == IF k \in DOMAIN f THEN [kind |-> "Some", v |-> f[k]] ELSE None

Min(S) == CHOOSE x \in S : \A y \in S : x <= y
SatSub(a, b) == IF a >= b THEN a - b ELSE 0

----------------------------------------------------------------------------
(* Validators, keys and signatures *)

SelfAddress == "a1"
ValidatorSet == {"a1", "a2"}        \* genesis.validator_set, static
Outsider == "ax"                    \* an address outside the validator set
Addresses == ValidatorSet \cup {Outsider}

\* The public key of the validator at an address; addresses are derived from
\* public keys, so the key is identified with the address it hashes to.
PublicKeyOf(addr) == [pk |-> addr]

Sign(signer, hash) == [signer |-> signer, msg |-> hash]
Verify(hash, signature, public_key) ==
    /\ signature.signer = public_key.pk
    /\ signature.msg = hash

----------------------------------------------------------------------------
(* Transactions *)

\* A transaction: gas_price orders the pool, valid is the outcome of validate()
\* (the recomputed hash matches and the signature verifies).
Tx(id, gas_price, valid) == [id |-> id, gas_price |-> gas_price, valid |-> valid]
Transactions == {Tx("t1", 1, TRUE), Tx("t2", 2, TRUE), Tx("t0", 3, FALSE)}

validate(tx) == tx.valid

----------------------------------------------------------------------------
(* Blocks, their hash and their encoding *)

ZeroHash == <<>>
GenesisTimestamp == 0
MAX_TIMESTAMP_DRIFT == 600

\* The wall clock (Utc::now()), held fixed in this model.
Now == GenesisTimestamp + MAX_TIMESTAMP_DRIFT

\* Merkle root over the blobs of the transactions.
DataHash(transactions) == [merkle |-> transactions]

\* SHA3-256(block_number || parent_hash || data_hash || proposer_address)
compute_block_hash(block_number, parent_hash, data_hash, proposer_address) ==
    <<block_number, parent_hash, data_hash, proposer_address>>

Block(number, timestamp, parent_hash, data_hash, proposer, block_hash, txs) ==
    [block_number |-> number, timestamp |-> timestamp,
     parent_hash |-> parent_hash, data_hash |-> data_hash,
     proposer_address |-> proposer, block_hash |-> block_hash,
     transactions |-> txs]

\* Block::new(height, timestamp, parent_hash, proposer, transactions)
BlockNew(height, timestamp, parent_hash, proposer, transactions) ==
    Block(height, timestamp, parent_hash, DataHash(transactions), proposer,
          compute_block_hash(height, parent_hash, DataHash(transactions), proposer),
          transactions)

BlockGenesis == BlockNew(0, GenesisTimestamp, ZeroHash, "a0", <<>>)

Abs(x) == IF x < 0 THEN -x ELSE x

\* is_valid with both timestamp comparisons strict
is_valid_strict(block, expected_height, prev_block, now) ==
    /\ block.parent_hash = prev_block.block_hash
    /\ block.block_number = expected_height
    /\ block.timestamp > prev_block.timestamp
    /\ Abs(block.timestamp - now) < MAX_TIMESTAMP_DRIFT
    /\ block.data_hash = DataHash(block.transactions)
    /\ block.block_hash = compute_block_hash(block.block_number, block.parent_hash,
                                             block.data_hash, block.proposer_address)

\* Block::is_valid(expected_height, prev_block), read at wall clock time now
is_valid(block, expected_height, prev_block, now) ==
    /\ block.parent_hash = prev_block.block_hash
    /\ block.block_number = expected_height
    /\ block.timestamp >= prev_block.timestamp
    /\ Abs(block.timestamp - now) <= MAX_TIMESTAMP_DRIFT
    /\ block.data_hash = DataHash(block.transactions)
    /\ block.block_hash = compute_block_hash(block.block_number, block.parent_hash,
                                             block.data_hash, block.proposer_address)

\* The canonical encoding of a block: three units.
Encode(block) ==
    << [tag |-> "hdr", block_number |-> block.block_number,
        timestamp |-> block.timestamp, parent_hash |-> block.parent_hash,
        proposer_address |-> block.proposer_address],
       [tag |-> "hash", data_hash |-> block.data_hash,
        block_hash |-> block.block_hash],
       [tag |-> "txs", transactions |-> block.transactions] >>

\* bincode::borrow_decode_from_slice succeeds
DecodeOk(bytes) ==
    /\ Len(bytes) >= 3
    /\ bytes[1].tag = "hdr"
    /\ bytes[2].tag = "hash"
    /\ bytes[3].tag = "txs"

Decode(bytes) ==
    Block(bytes[1].block_number, bytes[1].timestamp, bytes[1].parent_hash,
          bytes[2].data_hash, bytes[1].proposer_address, bytes[2].block_hash,
          bytes[3].transactions)

Junk == <<[tag |-> "junk"]>>

----------------------------------------------------------------------------
(* Values *)

\* DefaultHasher (SipHash) over the bytes
Hash64(data) == [h64 |-> data]

\* Value::new
ValueNew(data) == [value |-> Hash64(data), extensions |-> data]

\* Value::id
id(value) == value.value

ProposedValue(height, round, proposer, value) ==
    [height |-> height, round |-> round, valid_round |-> Nil,
     proposer |-> proposer, value |-> value, validity |-> "Valid"]

LocallyProposedValue(height, round, value) ==
    [height |-> height, round |-> round, value |-> value]

Certificate(height, round, value_id) ==
    [height |-> height, round |-> round, value_id |-> value_id]

----------------------------------------------------------------------------
(* The store: five tables, read and written through Db *)

Db(dv, ce, up, dbd, ubd) ==
    [decided_values |-> dv, certificates |-> ce, undecided_proposals |-> up,
     decided_block_data |-> dbd, undecided_block_data |-> ubd]

\* The tables as they are now
DB == Db(decided_values, certificates, undecided_proposals,
         decided_block_data, undecided_block_data)

\* Store::open, create_tables: five empty tables
EmptyDb == Db(EmptyMap, EmptyMap, EmptyMap, EmptyMap, EmptyMap)

\* The node stores the genesis block as the decided block of height 0.
GenesisDb == [EmptyDb EXCEPT !.decided_block_data = Put(EmptyMap, 0, Encode(BlockGenesis))]

\* The tables are db
SetDbInit(db) ==
    /\ decided_values = db.decided_values
    /\ certificates = db.certificates
    /\ undecided_proposals = db.undecided_proposals
    /\ decided_block_data = db.decided_block_data
    /\ undecided_block_data = db.undecided_block_data

\* The tables become db
SetDb(db) ==
    /\ decided_values' = db.decided_values
    /\ certificates' = db.certificates
    /\ undecided_proposals' = db.undecided_proposals
    /\ decided_block_data' = db.decided_block_data
    /\ undecided_block_data' = db.undecided_block_data

\* The order of UndecidedValueKey: by height, then by round (Nil first)
KeyLess(k1, k2) == k1[1] < k2[1] \/ (k1[1] = k2[1] /\ k1[2] < k2[2])

\* value.zip(certificate): Some only when both tables hold the height
get_decided_value(db, height) ==
    IF height \in DOMAIN db.decided_values /\ height \in DOMAIN db.certificates
    THEN [kind |-> "Some", v |-> [value |-> db.decided_values[height],
                                  certificate |-> db.certificates[height]]]
    ELSE None

\* values.insert, certificates.insert: both replace what the key held
insert_decided_value(db, value, certificate) ==
    [db EXCEPT !.decided_values = Put(@, certificate.height, value),
               !.certificates = Put(@, certificate.height, certificate)]

get_undecided_proposal(db, height, round) ==
    Get(db.undecided_proposals, <<height, round>>)

\* Only insert if no value exists at this key
\* insert_undecided_proposal without the is_none() test: the last write wins
insert_undecided_proposal_upsert(db, proposal) ==
    [db EXCEPT !.undecided_proposals =
                   Put(@, <<proposal.height, proposal.round>>, proposal)]

insert_undecided_proposal(db, proposal) ==
    IF <<proposal.height, proposal.round>> \in DOMAIN db.undecided_proposals
    THEN db
    ELSE [db EXCEPT !.undecided_proposals =
                        Put(@, <<proposal.height, proposal.round>>, proposal)]

\* Undecided first, then the decided block of the height
get_block_data(db, height, round) ==
    IF <<height, round>> \in DOMAIN db.undecided_block_data
    THEN [kind |-> "Some", v |-> db.undecided_block_data[<<height, round>>]]
    ELSE Get(db.decided_block_data, height)

insert_undecided_block_data(db, height, round, data) ==
    IF <<height, round>> \in DOMAIN db.undecided_block_data
    THEN db
    ELSE [db EXCEPT !.undecided_block_data = Put(@, <<height, round>>, data)]

insert_decided_block_data(db, height, data) ==
    IF height \in DOMAIN db.decided_block_data
    THEN db
    ELSE [db EXCEPT !.decided_block_data = Put(@, height, data)]

get_decided_block(db, height) == Get(db.decided_block_data, height)

\* table.range(..(retain_height, Round::Nil)) of an undecided table
undecided_proposals_range(table, retain_height) ==
    {k \in DOMAIN table : KeyLess(k, <<retain_height, Nil>>)}

\* decided.range(..retain_height): the keys of the decided values table
height_range(table, retain_height) ==
    {h \in DOMAIN table : h < retain_height}

\* Db::prune: the undecided tables by their own keys; decided values,
\* certificates and decided block data by the keys of the decided values table
prune(db, retain_height) ==
    LET keys == height_range(db.decided_values, retain_height)
    IN  Db(Remove(db.decided_values, keys),
           Remove(db.certificates, keys),
           Remove(db.undecided_proposals,
                  undecided_proposals_range(db.undecided_proposals, retain_height)),
           Remove(db.decided_block_data, keys),
           Remove(db.undecided_block_data,
                  undecided_proposals_range(db.undecided_block_data, retain_height)))

\* table.last(): the greatest key of the decided values table
max_decided_value_height(db) ==
    IF DOMAIN db.decided_values = {}
    THEN None
    ELSE [kind |-> "Some",
          v |-> CHOOSE h \in DOMAIN db.decided_values :
                    \A k \in DOMAIN db.decided_values : k <= h]

\* Mutant of min_decided_value_height: reads the other end of the table
min_decided_value_height_last(db) == max_decided_value_height(db)

\* table.first(): the least key of the decided values table
min_decided_value_height(db) ==
    IF DOMAIN db.decided_values = {}
    THEN None
    ELSE [kind |-> "Some", v |-> Min(DOMAIN db.decided_values)]

----------------------------------------------------------------------------
(* Proposal parts and stream messages *)

Some(v) == [kind |-> "Some", v |-> v]

ProposalInit(height, round, proposer) ==
    [type |-> "Init", height |-> height, round |-> round, proposer |-> proposer]
ProposalData(bytes) == [type |-> "Data", bytes |-> bytes]
ProposalFin(signature) == [type |-> "Fin", signature |-> signature]

\* StreamContent::Data(part) and StreamContent::Fin
ContentData(part) == [kind |-> "Data", part |-> part]
ContentFin == [kind |-> "Fin"]

StreamMessage(stream_id, sequence, content) ==
    [stream_id |-> stream_id, sequence |-> sequence, content |-> content]

ProposalParts(height, round, proposer, parts) ==
    [height |-> height, round |-> round, proposer |-> proposer, parts |-> parts]

\* Keccak256: update appends to what was hashed so far, finalize closes it
HasherNew == <<>>
HasherUpdate(hasher, bytes) == hasher \o bytes
HasherFinalize(hasher) == [keccak |-> hasher]
HeightBytes(height) == <<[u64 |-> height]>>     \* as_u64().to_be_bytes()
RoundBytes(round) == <<[i64 |-> round]>>        \* as_i64().to_be_bytes()

\* data.chunks(CHUNK_SIZE)
RECURSIVE chunks(_)
chunks(data) ==
    IF Len(data) = 0 THEN <<>>
    ELSE IF Len(data) <= CHUNK_SIZE THEN <<data>>
    ELSE <<SubSeq(data, 1, CHUNK_SIZE)>> \o chunks(SubSeq(data, CHUNK_SIZE + 1, Len(data)))

RECURSIVE HashChunks(_, _)
HashChunks(hasher, cs) ==
    IF cs = <<>> THEN hasher
    ELSE HashChunks(HasherUpdate(hasher, Head(cs)), Tail(cs))

\* make_proposal_parts had it left the round out of the signed hash
make_proposal_parts_no_round(address, value, data) ==
    LET cs == chunks(data)
        hasher == HashChunks(HasherUpdate(HasherNew, HeightBytes(value.height)), cs)
        signature == Sign(address, HasherFinalize(hasher))
    IN  <<ProposalInit(value.height, value.round, address)>>
        \o [i \in 1..Len(cs) |-> ProposalData(cs[i])]
        \o <<ProposalFin(signature)>>

\* State::make_proposal_parts, for the node at address signing with its own key
make_proposal_parts(address, value, data) ==
    LET cs == chunks(data)
        hasher == HashChunks(HasherUpdate(HasherUpdate(HasherNew,
                                 HeightBytes(value.height)), RoundBytes(value.round)), cs)
        signature == Sign(address, HasherFinalize(hasher))
    IN  <<ProposalInit(value.height, value.round, address)>>
        \o [i \in 1..Len(cs) |-> ProposalData(cs[i])]
        \o <<ProposalFin(signature)>>

\* State::stream_id: height || round || nonce
stream_id(height, round, nonce) == <<height, round, nonce>>

\* Mutant of stream_proposal: the Fin marker repeats the last part's sequence
stream_proposal_repeats(address, sid, value, data) ==
    LET parts == make_proposal_parts(address, value, data)
    IN  [i \in 1..Len(parts) |-> StreamMessage(sid, i - 1, ContentData(parts[i]))]
        \o <<StreamMessage(sid, Len(parts) - 1, ContentFin)>>

\* State::stream_proposal: the parts at sequence 0.., then the Fin marker
stream_proposal(address, sid, value, data) ==
    LET parts == make_proposal_parts(address, value, data)
    IN  [i \in 1..Len(parts) |-> StreamMessage(sid, i - 1, ContentData(parts[i]))]
        \o <<StreamMessage(sid, Len(parts), ContentFin)>>

\* The hash and the signature verify_proposal_signature gathers from the parts
RECURSIVE HashParts(_, _)
HashParts(hasher, parts) ==
    IF parts = <<>> THEN hasher
    ELSE LET part == Head(parts)
         IN  HashParts(
                 IF part.type = "Init"
                 THEN HasherUpdate(HasherUpdate(hasher, HeightBytes(part.height)),
                                   RoundBytes(part.round))
                 ELSE IF part.type = "Data" THEN HasherUpdate(hasher, part.bytes)
                 ELSE hasher,
                 Tail(parts))

RECURSIVE LastSignature(_, _)
LastSignature(signature, parts) ==
    IF parts = <<>> THEN signature
    ELSE LastSignature(IF Head(parts).type = "Fin" THEN Some(Head(parts).signature)
                       ELSE signature,
                       Tail(parts))

\* State::verify_proposal_signature: "Ok" or the SignatureVerificationError
verify_proposal_signature(parts) ==
    LET hash == HasherFinalize(HashParts(HasherNew, parts.parts))
        signature == LastSignature(None, parts.parts)
    IN  IF signature = None THEN "MissingFinPart"
        ELSE IF parts.proposer \notin ValidatorSet THEN "ProposerNotFound"
        ELSE IF ~Verify(hash, signature.v, PublicKeyOf(parts.proposer))
             THEN "InvalidSignature"
        ELSE "Ok"

RECURSIVE ConcatData(_)
ConcatData(parts) ==
    IF parts = <<>> THEN <<>>
    ELSE (IF Head(parts).type = "Data" THEN Head(parts).bytes ELSE <<>>)
         \o ConcatData(Tail(parts))

\* assemble_value_from_parts: (proposed value, data)
assemble_value_from_parts(parts) ==
    LET data == ConcatData(parts.parts)
    IN  [value |-> ProposedValue(parts.height, parts.round, parts.proposer,
                                 ValueNew(data)),
         data |-> data]

----------------------------------------------------------------------------
(* Streaming reassembly: PartStreamsMap *)

\* A stream not yet complete: the cursor, the parts buffered ahead of it, the
\* parts consumed in order, the Init metadata
NewStream ==
    [next |-> 0, buffered |-> EmptyMap, parts |-> <<>>, init |-> None,
     fin |-> FALSE, invalid |-> FALSE]

\* PartStreamsMap::new
NewStreamsMap == [streams |-> EmptyMap, finalized |-> {}]

\* Advance the cursor over the contiguous sequence numbers buffered
RECURSIVE Advance(_)
Advance(st) ==
    IF st.fin \/ st.invalid \/ st.next \notin DOMAIN st.buffered THEN st
    ELSE LET c == st.buffered[st.next]
             rest == Remove(st.buffered, {st.next})
         IN  IF st.next = 0 /\ (c.kind # "Data" \/ c.part.type # "Init")
             THEN [st EXCEPT !.invalid = TRUE]
             ELSE IF c.kind = "Fin"
             THEN [st EXCEPT !.fin = TRUE, !.next = @ + 1, !.buffered = rest]
             ELSE Advance([st EXCEPT !.parts = Append(@, c.part),
                                     !.init = IF st.next = 0 THEN Some(c.part) ELSE @,
                                     !.next = @ + 1,
                                     !.buffered = rest])

\* insert had it no record of the streams that completed
streams_insert_forgetful(map, peer_id, msg) ==
    LET key == <<peer_id, msg.stream_id>>
        st == IF key \in DOMAIN map.streams THEN map.streams[key] ELSE NewStream
    IN  IF msg.sequence < st.next \/ msg.sequence \in DOMAIN st.buffered
        THEN [map |-> map, result |-> None]
        ELSE LET adv == Advance([st EXCEPT !.buffered = Put(@, msg.sequence, msg.content)])
             IN  IF adv.invalid
                 THEN [map |-> [map EXCEPT !.streams = Remove(@, {key})],
                       result |-> None]
                 ELSE IF adv.fin
                 THEN [map |-> [map EXCEPT !.streams = Remove(@, {key})],
                       result |-> Some(ProposalParts(adv.init.v.height, adv.init.v.round,
                                                     adv.init.v.proposer, adv.parts))]
                 ELSE [map |-> [map EXCEPT !.streams = Put(@, key, adv)],
                       result |-> None]

\* insert had it completed a stream as soon as its Fin message arrives, with the
\* parts received so far
streams_insert_eager(map, peer_id, msg) ==
    LET key == <<peer_id, msg.stream_id>>
        st == IF key \in DOMAIN map.streams THEN map.streams[key] ELSE NewStream
        adv == Advance([st EXCEPT !.buffered = Put(@, msg.sequence, msg.content)])
    IN  IF key \in map.finalized \/ msg.sequence < st.next
           \/ msg.sequence \in DOMAIN st.buffered
        THEN [map |-> map, result |-> None]
        ELSE IF msg.content.kind = "Fin" /\ adv.init # None
        THEN [map |-> [streams |-> Remove(map.streams, {key}),
                       finalized |-> map.finalized \cup {key}],
              result |-> Some(ProposalParts(adv.init.v.height, adv.init.v.round,
                                            adv.init.v.proposer, adv.parts))]
        ELSE IF adv.fin
        THEN [map |-> [streams |-> Remove(map.streams, {key}),
                       finalized |-> map.finalized \cup {key}],
              result |-> Some(ProposalParts(adv.init.v.height, adv.init.v.round,
                                            adv.init.v.proposer, adv.parts))]
        ELSE [map |-> [map EXCEPT !.streams = Put(@, key, adv)], result |-> None]

\* PartStreamsMap::insert(peer_id, msg): the map after the call and its result
\* insert had it kept the entry of a stream whose first part is not Init
streams_insert_keeps_invalid(map, peer_id, msg) ==
    LET key == <<peer_id, msg.stream_id>>
        st == IF key \in DOMAIN map.streams THEN map.streams[key] ELSE NewStream
    IN  IF key \in map.finalized
        THEN [map |-> map, result |-> None]
        ELSE IF msg.sequence < st.next \/ msg.sequence \in DOMAIN st.buffered
        THEN [map |-> map, result |-> None]
        ELSE LET adv == Advance([st EXCEPT !.buffered = Put(@, msg.sequence, msg.content)])
             IN  IF adv.fin /\ ~adv.invalid
                 THEN [map |-> [streams |-> Remove(map.streams, {key}),
                                finalized |-> map.finalized \cup {key}],
                       result |-> Some(ProposalParts(adv.init.v.height, adv.init.v.round,
                                                     adv.init.v.proposer, adv.parts))]
                 ELSE [map |-> [map EXCEPT !.streams = Put(@, key, adv)],
                       result |-> None]

streams_insert(map, peer_id, msg) ==
    LET key == <<peer_id, msg.stream_id>>
        st == IF key \in DOMAIN map.streams THEN map.streams[key] ELSE NewStream
    IN  IF key \in map.finalized
        THEN [map |-> map, result |-> None]
        ELSE IF msg.sequence < st.next \/ msg.sequence \in DOMAIN st.buffered
        THEN [map |-> map, result |-> None]
        ELSE LET adv == Advance([st EXCEPT !.buffered = Put(@, msg.sequence, msg.content)])
             IN  IF adv.invalid
                 THEN [map |-> [map EXCEPT !.streams = Remove(@, {key})],
                       result |-> None]
                 ELSE IF adv.fin
                 THEN [map |-> [streams |-> Remove(map.streams, {key}),
                                finalized |-> map.finalized \cup {key}],
                       result |-> Some(ProposalParts(adv.init.v.height, adv.init.v.round,
                                                     adv.init.v.proposer, adv.parts))]
                 ELSE [map |-> [map EXCEPT !.streams = Put(@, key, adv)],
                       result |-> None]

----------------------------------------------------------------------------
(* The transaction pool: a vector kept sorted by gas price, ascending *)

IsSorted(pool) ==
    \A i \in 1..(Len(pool) - 1) : pool[i].gas_price <= pool[i + 1].gas_price

InsertAt(pool, i, tx) == SubSeq(pool, 1, i) \o <<tx>> \o SubSeq(pool, i + 1, Len(pool))

\* SortedVec::push: at a place that keeps the vector sorted
PoolPush(pool, tx) ==
    {InsertAt(pool, i, tx) : i \in {j \in 0..Len(pool) : IsSorted(InsertAt(pool, j, tx))}}

\* make_block pops until a transaction passes validate()
RECURSIVE SkipInvalid(_)
SkipInvalid(pool) ==
    IF pool = <<>> THEN <<>>
    ELSE IF validate(Head(pool)) THEN pool
    ELSE SkipInvalid(Tail(pool))

\* What a call of the pool gives back: a panic, or nothing
Panicked(at) == [kind |-> "Panicked", at |-> at]
Unit == [kind |-> "Unit"]

\* Mutant of add_transaction: pushes without calling validate()
add_transaction_unchecked(pool, tx) == PoolPush(pool, tx)

\* TransactionPool::add_transaction: the pools push can leave behind
add_transaction(pool, tx) == IF validate(tx) THEN PoolPush(pool, tx) ELSE {pool}

\* TransactionPool::tx_count
tx_count(pool) == Len(pool)

\* TransactionPool::get_top_transaction: drain(..1) takes the first element of
\* the vector, which SortedVec keeps in ascending order
get_top_transaction(pool) ==
    IF Len(pool) > 0 THEN [pool |-> Tail(pool), result |-> Some(Head(pool))]
    ELSE [pool |-> pool, result |-> None]

\* TransactionPool::get_transactions: drain(..count) takes the first count
\* elements and panics, before it removes anything, when count exceeds the length
get_transactions(pool, count) ==
    IF count > Len(pool) THEN [pool |-> pool, result |-> Panicked("drain")]
    ELSE [pool |-> SubSeq(pool, count + 1, Len(pool)),
          result |-> Some(SubSeq(pool, 1, count))]

----------------------------------------------------------------------------
(* State: construction *)

\* No thread is calling the pool, the consensus channel is open and empty
EnvInit ==
    /\ pool_lock = "free"
    /\ threads = EmptyMap
    /\ channel = <<>>
    /\ closed = FALSE
    /\ sent = <<>>
    /\ handled = <<>>
    /\ commit_pc = [at |-> "idle"]

\* State::new at the initial height, over a store that holds the genesis block
Init ==
    /\ SetDbInit(GenesisDb)
    /\ current_height = 1
    /\ current_round = 0
    /\ current_proposer = None
    /\ stream_nonce = 0
    /\ streams_map = NewStreamsMap
    /\ inserted = EmptyMap
    /\ transaction_pool = <<>>
    /\ EnvInit
    /\ status = "running"
    /\ last = [type |-> "Start"]
    /\ reply = NoReply
    /\ published = <<>>
    /\ network = {}

Running == status = "running"

\* What run() leaves alone when it returns Err or panics in the middle of a handler
Stop(how, msg) ==
    /\ status' = how
    /\ last' = msg
    /\ reply' = NoReply
    /\ published' = <<>>

\* A handler that ran to its end and sent r on the reply handle
Replied(msg, r) ==
    /\ status' = "running"
    /\ last' = msg
    /\ reply' = r
    /\ published' = <<>>

----------------------------------------------------------------------------
(* RPC: sendTransaction *)

\* TransactionPool::add_transaction
AddTransaction(tx) ==
    /\ Running
    /\ Len(transaction_pool) < MaxPool
    /\ transaction_pool' \in add_transaction(transaction_pool, tx)
    /\ UNCHANGED <<store_vars, current_height, current_round, current_proposer,
                   stream_nonce, streams_map, inserted, io_vars>>

----------------------------------------------------------------------------
(* The app loop: one action per message of the consensus engine *)

\* AppMsg::ConsensusReady
ConsensusReady ==
    /\ Running
    /\ Replied([type |-> "ConsensusReady"],
               [kind |-> "Start", height |-> current_height, validator_set |-> ValidatorSet])
    /\ UNCHANGED <<store_vars, app_vars, network>>

\* Mutant of StartedRound: never replays the stored proposal
StartedRoundForgets(height, round, proposer) ==
    /\ Running
    /\ current_height' = height
    /\ current_round' = round
    /\ current_proposer' = Some(proposer)
    /\ Replied([type |-> "StartedRound", height |-> height, round |-> round,
                proposer |-> proposer], None)
    /\ UNCHANGED <<store_vars, stream_nonce, streams_map, inserted, transaction_pool, network>>

\* AppMsg::StartedRound
StartedRound(height, round, proposer) ==
    /\ Running
    /\ current_height' = height
    /\ current_round' = round
    /\ current_proposer' = Some(proposer)
    /\ Replied([type |-> "StartedRound", height |-> height, round |-> round,
                proposer |-> proposer],
               get_undecided_proposal(DB, height, round))
    /\ UNCHANGED <<store_vars, stream_nonce, streams_map, inserted, transaction_pool, network>>

\* State::propose_value: the store after the proposal and its data are inserted
propose_value(db, address, height, round, data) ==
    insert_undecided_block_data(
        insert_undecided_proposal(db, ProposedValue(height, round, address, ValueNew(data))),
        height, round, data)

\* State::make_block: the block built on prev_block from the transaction tx
make_block(height, now, prev_block, address, tx) ==
    Encode(BlockNew(height, now, prev_block.block_hash, address, <<tx>>))

\* stream_nonce: u32, at a width of NonceBits bits
NonceBits == 5
NonceModulus == 2 ^ NonceBits

\* self.stream_nonce += 1: past the greatest value the addition panics with
\* overflow checks on (None) and wraps to 0 with them off
NonceOutcomes(nonce) ==
    IF nonce + 1 < NonceModulus THEN {Some(nonce + 1)} ELSE {None, Some(0)}

\* AppMsg::GetValue
GetValue(height, round) ==
    LET msg == [type |-> "GetValue", height |-> height, round |-> round]
        prev == get_decided_block(DB, current_height - 1)
        pool == SkipInvalid(transaction_pool)
    IN
    /\ Running
    /\ IF prev = None
       THEN \* prev_block.unwrap() panics
            /\ Stop("panicked", msg)
            /\ UNCHANGED <<store_vars, app_vars, network>>
       ELSE IF ~DecodeOk(prev.v)
       THEN \* the decode error leaves run() through ?
            /\ Stop("failed", msg)
            /\ UNCHANGED <<store_vars, app_vars, network>>
       ELSE \* get_top_transaction: waits until the pool holds a transaction
            /\ Len(pool) > 0
            /\ transaction_pool' = Tail(pool)
            /\ IF height # current_height \/ round # current_round
               THEN \* assert_eq! in propose_value panics
                    /\ Stop("panicked", msg)
                    /\ UNCHANGED <<store_vars, current_height, current_round,
                                   current_proposer, stream_nonce, streams_map, inserted, network>>
               ELSE LET data == make_block(current_height, Now, Decode(prev.v),
                                           SelfAddress, Head(pool))
                        value == LocallyProposedValue(height, round, ValueNew(data))
                        sid == stream_id(current_height, current_round, stream_nonce)
                    IN  \* stream_id is called after the reply was sent
                        \E next \in NonceOutcomes(stream_nonce) :
                        /\ SetDb(propose_value(DB, SelfAddress, height, round, data))
                        /\ stream_nonce' = IF next = None THEN stream_nonce ELSE next.v
                        /\ status' = IF next = None THEN "panicked" ELSE "running"
                        /\ last' = msg
                        /\ reply' = Some(value)
                        /\ published' = IF next = None THEN <<>>
                                        ELSE stream_proposal(SelfAddress, sid, value, data)
                        /\ UNCHANGED <<current_height, current_round, current_proposer,
                                       streams_map, inserted, network>>

\* received_proposal_part had it no call of verify_proposal_signature
ReceivedOutcomeUnverified(db, height, parts, now) ==
    LET data == assemble_value_from_parts(parts).data
        prev == get_decided_block(db, height - 1)
    IN  IF parts.height < height THEN "outdated"
        ELSE IF ~DecodeOk(data) THEN "decode"
        ELSE IF prev = None THEN "noprev"
        ELSE IF ~DecodeOk(prev.v) THEN "decode"
        ELSE IF ~is_valid(Decode(data), height, Decode(prev.v), now) THEN "invalid"
        ELSE "stored"

\* The history of insert after one more call
Inserted(h, peer_id, msg, result) ==
    LET key == <<peer_id, msg.stream_id>>
        old == IF key \in DOMAIN h THEN h[key] ELSE [seqs |-> {}, somes |-> 0]
    IN  Put(h, key, [seqs |-> old.seqs \cup {msg.sequence},
                     somes |-> old.somes + (IF result = None THEN 0 ELSE 1)])

\* State::received_proposal_part after the stream completed with parts:
\* "outdated", "signature", "decode", "noprev", "invalid" or "stored"
ReceivedOutcome(db, height, parts, now) ==
    LET data == assemble_value_from_parts(parts).data
        prev == get_decided_block(db, height - 1)
    IN  IF parts.height < height THEN "outdated"
        ELSE IF verify_proposal_signature(parts) # "Ok" THEN "signature"
        ELSE IF ~DecodeOk(data) THEN "decode"
        ELSE IF prev = None THEN "noprev"
        ELSE IF ~DecodeOk(prev.v) THEN "decode"
        ELSE IF ~is_valid(Decode(data), height, Decode(prev.v), now) THEN "invalid"
        ELSE "stored"

\* The store after an accepted proposal and its data are inserted
StoreReceived(db, parts) ==
    LET a == assemble_value_from_parts(parts)
    IN  insert_undecided_block_data(insert_undecided_proposal(db, a.value),
                                    parts.height, parts.round, a.data)

\* AppMsg::ReceivedProposalPart
ReceivedProposalPart(from, part) ==
    LET ins == streams_insert(streams_map, from, part)
        outcome == IF ins.result = None THEN "incomplete"
                   ELSE ReceivedOutcome(DB, current_height, ins.result.v, Now)
        msg == [type |-> "ReceivedProposalPart", from |-> from, part |-> part,
                parts |-> ins.result, outcome |-> outcome]
    IN
    /\ Running
    /\ streams_map' = ins.map
    /\ inserted' = Inserted(inserted, from, part, ins.result)
    /\ IF outcome = "decode"
       THEN \* the decode error leaves run() through ?
            /\ Stop("failed", msg)
            /\ UNCHANGED store_vars
       ELSE IF outcome = "stored"
       THEN /\ SetDb(StoreReceived(DB, ins.result.v))
            /\ Replied(msg, Some(assemble_value_from_parts(ins.result.v).value))
       ELSE /\ Replied(msg, None)
            /\ UNCHANGED store_vars
    /\ UNCHANGED <<current_height, current_round, current_proposer, stream_nonce,
                   transaction_pool, network>>

\* commit had it kept one height more than MAX_HISTORY_LENGTH
commit_keeps_one_more(db, certificate, proposal) ==
    LET db1 == insert_decided_value(db, proposal.value, certificate)
        block_data == get_block_data(db1, certificate.height, certificate.round)
        db2 == IF block_data = None THEN db1
               ELSE insert_decided_block_data(db1, certificate.height, block_data.v)
    IN  prune(db2, SatSub(certificate.height, MAX_HISTORY_LENGTH + 1))

\* State::commit once the undecided proposal was found: the store afterwards
commit(db, certificate, proposal) ==
    LET db1 == insert_decided_value(db, proposal.value, certificate)
        block_data == get_block_data(db1, certificate.height, certificate.round)
        db2 == IF block_data = None THEN db1
               ELSE insert_decided_block_data(db1, certificate.height, block_data.v)
    IN  prune(db2, SatSub(certificate.height, MAX_HISTORY_LENGTH))

\* The height after a commit: self.current_height.increment()
NextHeight(height, certificate) == height + 1

\* Mutant of Decided: without a stored proposal the height still advances
DecidedAdvances(certificate) ==
    LET proposal == get_undecided_proposal(DB, certificate.height, certificate.round)
        msg == [type |-> "Decided", certificate |-> certificate,
                committed |-> proposal # None]
    IN
    /\ Running
    /\ IF proposal = None THEN UNCHANGED store_vars
       ELSE SetDb(commit(DB, certificate, proposal.v))
    /\ current_height' = NextHeight(current_height, certificate)
    /\ current_round' = 0
    /\ Replied(msg, [kind |-> "StartHeight",
                     height |-> NextHeight(current_height, certificate),
                     validator_set |-> ValidatorSet])
    /\ UNCHANGED <<current_proposer, stream_nonce, streams_map, inserted, transaction_pool, network>>

\* AppMsg::Decided
\* Decided had it returned from the handler when commit finds no proposal,
\* without the StartHeight reply
DecidedSilent(certificate) ==
    LET proposal == get_undecided_proposal(DB, certificate.height, certificate.round)
        msg == [type |-> "Decided", certificate |-> certificate,
                committed |-> proposal # None]
    IN
    /\ Running
    /\ IF proposal = None
       THEN /\ status' = "running"
            /\ last' = msg
            /\ reply' = NoReply
            /\ published' = <<>>
            /\ UNCHANGED <<store_vars, current_height, current_round>>
       ELSE /\ SetDb(commit(DB, certificate, proposal.v))
            /\ current_height' = NextHeight(current_height, certificate)
            /\ current_round' = 0
            /\ Replied(msg, [kind |-> "StartHeight",
                             height |-> NextHeight(current_height, certificate),
                             validator_set |-> ValidatorSet])
    /\ UNCHANGED <<current_proposer, stream_nonce, streams_map, inserted, transaction_pool, network>>

\* AppMsg::Decided
Decided(certificate) ==
    LET proposal == get_undecided_proposal(DB, certificate.height, certificate.round)
        msg == [type |-> "Decided", certificate |-> certificate,
                committed |-> proposal # None]
    IN
    /\ Running
    /\ IF proposal = None
       THEN \* Trying to commit a value that is not decided: commit returns Ok(())
            /\ Replied(msg, [kind |-> "StartHeight", height |-> current_height,
                             validator_set |-> ValidatorSet])
            /\ UNCHANGED <<store_vars, current_height, current_round>>
       ELSE /\ SetDb(commit(DB, certificate, proposal.v))
            /\ current_height' = NextHeight(current_height, certificate)
            /\ current_round' = 0
            /\ Replied(msg, [kind |-> "StartHeight",
                             height |-> NextHeight(current_height, certificate),
                             validator_set |-> ValidatorSet])
    /\ UNCHANGED <<current_proposer, stream_nonce, streams_map, inserted, transaction_pool, network>>

\* ProtobufCodec for Value: the id and the extensions travel as they are
EncodeValue(value) ==
    <<[tag |-> "value", value |-> value.value, extensions |-> value.extensions]>>

ValueDecodeOk(bytes) == Len(bytes) = 1 /\ bytes[1].tag = "value"

\* decode_value, where ProtobufCodec.decode succeeds
decode_value(bytes) == [value |-> bytes[1].value, extensions |-> bytes[1].extensions]

\* Mutant of ProcessSyncedValue: the synced value is stored as a proposal
ProcessSyncedValueStores(height, round, proposer, value_bytes) ==
    LET msg == [type |-> "ProcessSyncedValue", height |-> height, round |-> round,
                proposer |-> proposer, value_bytes |-> value_bytes]
        proposal == ProposedValue(height, round, proposer, decode_value(value_bytes))
    IN
    /\ Running
    /\ ValueDecodeOk(value_bytes)
    /\ SetDb(insert_undecided_proposal(DB, proposal))
    /\ Replied(msg, proposal)
    /\ UNCHANGED <<app_vars, network>>

\* AppMsg::ProcessSyncedValue
ProcessSyncedValue(height, round, proposer, value_bytes) ==
    LET msg == [type |-> "ProcessSyncedValue", height |-> height, round |-> round,
                proposer |-> proposer, value_bytes |-> value_bytes]
    IN
    /\ Running
    /\ IF ValueDecodeOk(value_bytes)
       THEN Replied(msg, ProposedValue(height, round, proposer, decode_value(value_bytes)))
       ELSE \* decode(bytes).unwrap() panics
            Stop("panicked", msg)
    /\ UNCHANGED <<store_vars, app_vars, network>>

\* AppMsg::GetDecidedValue
GetDecidedValue(height) ==
    /\ Running
    /\ Replied([type |-> "GetDecidedValue", height |-> height],
               get_decided_value(DB, height))
    /\ UNCHANGED <<store_vars, app_vars, network>>

\* State::get_earliest_height: min_decided_value_height().unwrap_or_default()
get_earliest_height(db) ==
    IF min_decided_value_height(db) = None THEN 1 ELSE min_decided_value_height(db).v

\* AppMsg::GetHistoryMinHeight
GetHistoryMinHeight ==
    /\ Running
    /\ Replied([type |-> "GetHistoryMinHeight"], Some(get_earliest_height(DB)))
    /\ UNCHANGED <<store_vars, app_vars, network>>

----------------------------------------------------------------------------
(* RPC: blockNumber *)

\* Height::default()
HeightDefault == 1

\* max_decided_value_height().await.unwrap_or_default().as_u64()
block_number(db) ==
    IF max_decided_value_height(db) = None THEN HeightDefault
    ELSE max_decided_value_height(db).v

\* MikanRpcObj::block_number
BlockNumber ==
    /\ Running
    /\ Replied([type |-> "blockNumber"], Some(block_number(DB)))
    /\ UNCHANGED <<store_vars, app_vars, network>>

----------------------------------------------------------------------------
(* RPC: sampleBlob and getBlob *)

\* jsonrpsee::types::error::INTERNAL_ERROR_CODE
INTERNAL_ERROR_CODE == -32603

\* Transaction.data: [Blob; 4]
BLOBS_PER_TX == 4

RpcErr(message) == [ok |-> FALSE, code |-> INTERNAL_ERROR_CODE, message |-> message]
RpcOk(v) == [ok |-> TRUE, v |-> v]

\* Block::blobs: the blobs of the transactions of the block, in order
blobs(block) ==
    [i \in 1..(Len(block.transactions) * BLOBS_PER_TX) |->
        [tx |-> block.transactions[((i - 1) \div BLOBS_PER_TX) + 1].id,
         blob |-> (i - 1) % BLOBS_PER_TX]]

\* frieda::api::generate_proof(blob, seed, config)
generate_proof(blob, sampling_seed) == [proof_of |-> blob, seed |-> sampling_seed]

\* get_blob with the index check off by one
get_blob_unchecked(db, block_height, blob_index) ==
    LET block_data == get_decided_block(db, block_height)
    IN  IF block_data = None THEN RpcErr("Couldn't find block")
        ELSE IF ~DecodeOk(block_data.v) THEN RpcErr("Couldn't decode block")
        ELSE IF blob_index > Len(blobs(Decode(block_data.v)))
             THEN RpcErr("Blob index out of bounds")
        ELSE IF blob_index = Len(blobs(Decode(block_data.v))) THEN RpcOk(None)
        ELSE RpcOk(blobs(Decode(block_data.v))[blob_index + 1])

\* MikanRpcObj::get_blob; blob_index counts from 0
get_blob(db, block_height, blob_index) ==
    LET block_data == get_decided_block(db, block_height)
    IN  IF block_data = None THEN RpcErr("Couldn't find block")
        ELSE IF ~DecodeOk(block_data.v) THEN RpcErr("Couldn't decode block")
        ELSE IF blob_index >= Len(blobs(Decode(block_data.v)))
             THEN RpcErr("Blob index out of bounds")
        ELSE RpcOk(blobs(Decode(block_data.v))[blob_index + 1])

\* MikanRpcObj::sample_blob: the same three checks, then the FRIEDA proof
sample_blob(db, block_height, blob_index, sampling_seed) ==
    LET found == get_blob(db, block_height, blob_index)
    IN  IF found.ok THEN RpcOk(generate_proof(found.v, sampling_seed)) ELSE found

GetBlob(block_height, blob_index) ==
    /\ Running
    /\ Replied([type |-> "getBlob", height |-> block_height, blob_index |-> blob_index],
               get_blob(DB, block_height, blob_index))
    /\ UNCHANGED <<store_vars, app_vars, network>>

SampleBlob(block_height, blob_index, sampling_seed) ==
    /\ Running
    /\ Replied([type |-> "sampleBlob", height |-> block_height, blob_index |-> blob_index],
               sample_blob(DB, block_height, blob_index, sampling_seed))
    /\ UNCHANGED <<store_vars, app_vars, network>>

----------------------------------------------------------------------------
(* The environment: peers that stream proposals, the engine that sends messages *)

SpecPeer == "p2"
PeerAddress == "a2"      \* a validator other than this node, possibly Byzantine

\* The heights whose decided block data decodes
DecodableHeights == {h \in DOMAIN decided_block_data : DecodeOk(decided_block_data[h])}

\* The byte strings a peer may stream under its signature: a block of any
\* number built on any decided block, or bytes that do not decode
PeerData ==
    {Encode(BlockNew(n, Now, Decode(decided_block_data[k]).block_hash, PeerAddress,
                     <<Tx("t1", 1, TRUE)>>)) : n \in Heights, k \in DecodableHeights}
    \cup {Junk}

\* The bytes of a forged stream: the signature is checked before they are read
ForgedData(height) ==
    Encode(BlockNew(height, Now, BlockGenesis.block_hash, PeerAddress, <<>>))

\* The messages of a stream as stream_proposal makes them, with the proposer
\* named in the Init part replaced
WithProposer(msgs, claimed) ==
    [i \in 1..Len(msgs) |->
        IF msgs[i].content.kind = "Data" /\ msgs[i].content.part.type = "Init"
        THEN [msgs[i] EXCEPT !.content.part.proposer = claimed]
        ELSE msgs[i]]

\* The messages of a stream without its Fin part, renumbered
WithoutFinPart(msgs) ==
    LET keep == SelectSeq(msgs, LAMBDA m : m.content.kind = "Fin" \/ m.content.part.type # "Fin")
    IN  [i \in 1..Len(keep) |-> [keep[i] EXCEPT !.sequence = i - 1]]

\* The messages of a stream without its Init part, renumbered: the part at
\* sequence 0 is a Data part
WithoutInitPart(msgs) ==
    LET keep == SelectSeq(msgs, LAMBDA m : m.content.kind = "Fin" \/ m.content.part.type # "Init")
    IN  [i \in 1..Len(keep) |-> [keep[i] EXCEPT !.sequence = i - 1]]

\* What a peer puts on the wire for (height, round) and data: a stream signed by
\* the validator PeerAddress, or one of the forgeries
PeerMessages(forge, sid, height, round, data) ==
    LET value == LocallyProposedValue(height, round, ValueNew(data))
    IN  CASE forge = "signed" -> stream_proposal(PeerAddress, sid, value, data)
          [] forge = "badsig" -> WithProposer(stream_proposal(PeerAddress, sid, value, data),
                                              SelfAddress)
          [] forge = "outsider" -> stream_proposal(Outsider, sid, value, data)
          [] forge = "nofin" -> WithoutFinPart(stream_proposal(PeerAddress, sid, value, data))
          [] forge = "noinit" -> WithoutInitPart(stream_proposal(PeerAddress, sid, value, data))

Forgeries == {"signed", "badsig", "outsider", "nofin"}

StreamIds == {m.msg.stream_id : m \in network}

\* A peer streams a proposal: its messages are on the wire, in no order
PeerStreams(forge, height, round, data) ==
    LET sid == stream_id(height, round, Cardinality(StreamIds))
        msgs == PeerMessages(forge, sid, height, round, data)
    IN
    /\ Running
    /\ Cardinality(StreamIds) < MaxPeerStreams
    /\ forge # "signed" => data = ForgedData(height)
    /\ network' = network \cup {[from |-> SpecPeer, msg |-> msgs[i]] : i \in 1..Len(msgs)}
    /\ UNCHANGED <<store_vars, app_vars, status, last, reply, published>>

\* The proposer the engine names for a round: the validators take turns
ProposerOf(height, round) == IF (height + round) % 2 = 0 THEN "a1" ELSE "a2"

\* The value ids a certificate for (height, round) may carry: that of the
\* proposal stored there, and one of a value this node has not stored
ForeignValueId == id(ValueNew(Junk))
CertificateValueIds(height, round) ==
    {id(undecided_proposals[k].value) : k \in {<<height, round>>} \cap DOMAIN undecided_proposals}
    \cup {ForeignValueId}

\* The transactions sent to this node
SpecTransactions == {Tx("t1", 1, TRUE), Tx("t0", 3, FALSE)}

\* Here the wire delivers the messages of a stream once each, in the order of
\* their sequence numbers (SpecStream delivers them in any order, repeatedly)
InOrder(m) ==
    LET key == <<m.from, m.msg.stream_id>>
    IN  m.msg.sequence = IF key \in DOMAIN inserted
                         THEN Cardinality(inserted[key].seqs) ELSE 0

Next ==
    \/ \E tx \in SpecTransactions : AddTransaction(tx) /\ UNCHANGED env_vars
    \/ \E r \in Rounds :
          /\ StartedRound(current_height, r, ProposerOf(current_height, r))
          /\ UNCHANGED env_vars
    \/ \E h \in Heights, r \in Rounds :
          stream_nonce < MaxNonce /\ GetValue(h, r) /\ UNCHANGED env_vars
    \/ \E m \in network :
          InOrder(m) /\ ReceivedProposalPart(m.from, m.msg) /\ UNCHANGED env_vars
    \/ \E h \in Heights, r \in Rounds : \E v \in CertificateValueIds(h, r) :
          current_height <= MaxHeight /\ Decided(Certificate(h, r, v))
                                      /\ UNCHANGED env_vars
    \/ \E f \in Forgeries, h \in Heights, r \in Rounds :
          \E d \in PeerData \cup {ForgedData(h)} :
             PeerStreams(f, h, r, d) /\ UNCHANGED env_vars

Spec == Init /\ [][Next]_vars

----------------------------------------------------------------------------
(* Properties of the message loop *)

\* C1: once Decided(certificate) is handled, get_decided_value at the
\* certificate's height returns a value whose id is the certificate's
\* value_id, together with that certificate
DecidedValueIsStored ==
    last.type = "Decided" =>
        LET d == get_decided_value(DB, last.certificate.height)
        IN  /\ d # None
            /\ id(d.v.value) = last.certificate.value_id
            /\ d.v.certificate = last.certificate

\* C2: once Decided(certificate) is handled, current_height is the
\* certificate's height plus one, current_round is 0 and the reply is
\* StartHeight of that height with the genesis validator set
DecidedStartsNextHeight ==
    last.type = "Decided" =>
        /\ current_height = last.certificate.height + 1
        /\ current_round = 0
        /\ reply = [kind |-> "StartHeight", height |-> last.certificate.height + 1,
                    validator_set |-> ValidatorSet]

\* C3: a decided block at a height above genesis names as its parent the hash
\* of the decided block one height below
DecidedBlock(h) == Decode(decided_block_data[h])
ParentHashChain ==
    \A h \in DOMAIN decided_block_data :
        (h > 0 /\ (h - 1) \in DOMAIN decided_block_data
           /\ DecodeOk(decided_block_data[h]) /\ DecodeOk(decided_block_data[h - 1]))
        => DecidedBlock(h).parent_hash = DecidedBlock(h - 1).block_hash

\* C4: a decided value is immutable: no step replaces the value or the
\* certificate stored at a height
DecidedValueImmutable ==
    [][\A h \in DOMAIN decided_values \cap DOMAIN certificates :
          (h \in DOMAIN decided_values' /\ h \in DOMAIN certificates')
          => /\ decided_values'[h] = decided_values[h]
             /\ certificates'[h] = certificates[h]]_vars

\* The proposals the claim names as rejected: a completed stream without a
\* Fin part, of a proposer outside the validator set, with a signature that
\* does not verify, or whose block fails is_valid on the decided parent
Rejected(parts, height, db) ==
    LET data == assemble_value_from_parts(parts).data
        prev == get_decided_block(db, height - 1)
    IN  \/ verify_proposal_signature(parts) # "Ok"
        \/ /\ DecodeOk(data) /\ prev # None /\ DecodeOk(prev.v)
           /\ ~is_valid(Decode(data), height, Decode(prev.v), Now)

\* C7: a completed proposal that is rejected leaves the store as it was and
\* is answered with None; a proposal answered with Some was stored and had
\* passed verify_proposal_signature
RejectedProposalNotStored ==
    /\ [](last.type = "ReceivedProposalPart" /\ reply.kind = "Some"
           => /\ verify_proposal_signature(last.parts.v) = "Ok"
              /\ <<last.parts.v.height, last.parts.v.round>> \in DOMAIN undecided_proposals)
    /\ [][(/\ last' # last
        /\ last'.type = "ReceivedProposalPart"
        /\ last'.parts # None
        /\ Rejected(last'.parts.v, current_height, DB))
       => (UNCHANGED store_vars /\ reply' = None)]_vars

\* A forged stream completed and was answered with None
RejectedProposalSeen ==
    /\ last.type = "ReceivedProposalPart"
    /\ last.parts # None
    /\ verify_proposal_signature(last.parts.v) = "InvalidSignature"
    /\ reply = None

----------------------------------------------------------------------------
(* Reassembly: peers stream proposals, their messages arrive in any order, *)
(* any number of times                                                     *)

NextStream ==
    \/ \E f \in Forgeries, h \in Heights, r \in Rounds :
          \E d \in PeerData \cup {ForgedData(h)} :
             PeerStreams(f, h, r, d) /\ UNCHANGED env_vars
    \/ \E m \in network : ReceivedProposalPart(m.from, m.msg) /\ UNCHANGED env_vars

SpecStream == Init /\ [][NextStream]_vars

\* The messages of a stream on the wire, their sequence numbers, and the parts
\* they carry in the order of the sequence numbers (the last message is Fin)
StreamOf(key) == {m \in network : <<m.from, m.msg.stream_id>> = key}
SeqsOf(key) == {m.msg.sequence : m \in StreamOf(key)}
PartsOf(key) ==
    [i \in 1..(Cardinality(StreamOf(key)) - 1) |->
        (CHOOSE m \in StreamOf(key) : m.msg.sequence = i - 1).msg.content.part]

\* C5: for a (peer, stream id), insert returns the completed parts at most
\* once; every insert after that returns None
StreamCompletesAtMostOnce ==
    \A key \in DOMAIN inserted : inserted[key].somes <= 1

\* A message of a stream that had completed was inserted, and returned None
InsertAfterCompletion ==
    /\ last.type = "ReceivedProposalPart"
    /\ last.parts = None
    /\ inserted[<<last.from, last.part.stream_id>>].somes = 1

\* C6: whatever the order of arrival of the messages 0..N of a stream, insert
\* returns None until all of them were received and completes with the
\* message that fills the last gap; the parts of the result are in the order
\* of the sequence numbers, its height, round and proposer those of Init
StreamCompletesWhenFull ==
    /\ \A key \in DOMAIN inserted :
          inserted[key].somes >= 1 <=> inserted[key].seqs = SeqsOf(key)
    /\ (last.type = "ReceivedProposalPart" /\ last.parts # None) =>
          LET key == <<last.from, last.part.stream_id>>
              init == PartsOf(key)[1]
          IN  /\ last.parts.v.parts = PartsOf(key)
              /\ last.parts.v.height = init.height
              /\ last.parts.v.round = init.round
              /\ last.parts.v.proposer = init.proposer

\* A stream completed with a message other than its last, the Fin message
\* having arrived before
StreamCompletedOutOfOrder ==
    /\ last.type = "ReceivedProposalPart"
    /\ last.parts # None
    /\ Len(last.parts.v.parts) >= 4
    /\ last.part.sequence = 1

----------------------------------------------------------------------------
(* Round trip: what stream_proposal makes for a validator, handed to insert *)
(* in any order, then verified and assembled as received_proposal_part does *)

RECURSIVE BytesUpTo(_)
BytesUpTo(n) ==
    IF n = 0 THEN {<<>>}
    ELSE BytesUpTo(n - 1)
         \cup {Append(b, [byte |-> u]) : b \in {x \in BytesUpTo(n - 1) : Len(x) = n - 1},
                                         u \in {0, 1}}

InitRoundTrip ==
    /\ SetDbInit(GenesisDb)
    /\ current_round = 0
    /\ current_proposer = None
    /\ stream_nonce = 0
    /\ streams_map = NewStreamsMap
    /\ inserted = EmptyMap
    /\ transaction_pool = <<>>
    /\ EnvInit
    /\ status = "running"
    /\ reply = NoReply
    /\ network = {}
    /\ \E a \in ValidatorSet, h \in Heights, r \in Rounds, B \in BytesUpTo(MaxData) :
          /\ current_height = h
          /\ last = [type |-> "Proposed", proposer |-> a, height |-> h, round |-> r,
                     data |-> B]
          /\ published = stream_proposal(a, stream_id(h, r, 0),
                                         LocallyProposedValue(h, r, ValueNew(B)), B)

\* The peer receives the i-th message published: insert, and once the stream
\* is complete verify_proposal_signature and assemble_value_from_parts
Deliver(i) ==
    LET ins == streams_insert(streams_map, SpecPeer, published[i])
    IN  /\ streams_map' = ins.map
        /\ inserted' = Inserted(inserted, SpecPeer, published[i], ins.result)
        /\ reply' = IF ins.result = None THEN None
                    ELSE Some([verdict |-> verify_proposal_signature(ins.result.v),
                               assembled |-> assemble_value_from_parts(ins.result.v)])
        /\ UNCHANGED <<store_vars, current_height, current_round, current_proposer,
                       stream_nonce, transaction_pool, status, last, published, network>>

NextRoundTrip == \E i \in 1..Len(published) : Deliver(i) /\ UNCHANGED env_vars

SpecRoundTrip == InitRoundTrip /\ [][NextRoundTrip]_vars

\* C8: the messages stream_proposal makes for a validator's value at (h, r)
\* with bytes B, delivered in any order, pass verify_proposal_signature and
\* assemble to the ProposedValue of h, r, the proposer's address and the
\* value of B, with the bytes B and the same value id
StreamRoundTrip ==
    (last.type = "Proposed" /\ reply.kind = "Some") =>
        /\ reply.v.verdict = "Ok"
        /\ reply.v.assembled.data = last.data
        /\ reply.v.assembled.value =
               ProposedValue(last.height, last.round, last.proposer, ValueNew(last.data))
        /\ id(reply.v.assembled.value.value) = id(ValueNew(last.data))

\* A stream of the longest bytes, in several chunks, was reassembled
RoundTripDone ==
    /\ last.type = "Proposed"
    /\ reply.kind = "Some"
    /\ Len(last.data) = MaxData
    /\ streams_map.finalized # {}

----------------------------------------------------------------------------
(* The store driven alone, through its public operations, from empty tables *)

StoreHeights == 0..MaxHeight
StoreRounds == {Nil} \cup Rounds
StoreData == <<[byte |-> 0]>>

Entries ==
    Cardinality(DOMAIN decided_values) + Cardinality(DOMAIN undecided_proposals)
    + Cardinality(DOMAIN decided_block_data) + Cardinality(DOMAIN undecided_block_data)

InitStore ==
    /\ SetDbInit(EmptyDb)
    /\ current_height = 1
    /\ current_round = 0
    /\ current_proposer = None
    /\ stream_nonce = 0
    /\ streams_map = NewStreamsMap
    /\ inserted = EmptyMap
    /\ transaction_pool = <<>>
    /\ EnvInit
    /\ status = "running"
    /\ last = [type |-> "Start"]
    /\ reply = NoReply
    /\ published = <<>>
    /\ network = {}

\* A call of the store: the tables change, the node's state does not
StoreCall(msg, db) ==
    /\ SetDb(db)
    /\ last' = msg
    /\ UNCHANGED <<app_vars, status, reply, published, network>>

\* Store::store_decided_value
StoreDecidedValue(height, round) ==
    /\ Entries < MaxEntries
    /\ StoreCall([type |-> "store_decided_value", height |-> height],
                 insert_decided_value(DB, ValueNew(StoreData),
                     Certificate(height, round, id(ValueNew(StoreData)))))

\* Store::store_undecided_proposal
StoreUndecidedProposal(height, round) ==
    /\ Entries < MaxEntries
    /\ StoreCall([type |-> "store_undecided_proposal", height |-> height],
                 insert_undecided_proposal(DB,
                     ProposedValue(height, round, PeerAddress, ValueNew(StoreData))))

\* Store::store_undecided_block_data
StoreUndecidedBlockData(height, round) ==
    /\ Entries < MaxEntries
    /\ StoreCall([type |-> "store_undecided_block_data", height |-> height],
                 insert_undecided_block_data(DB, height, round, StoreData))

\* Store::store_decided_block_data
StoreDecidedBlockData(height) ==
    /\ Entries < MaxEntries
    /\ StoreCall([type |-> "store_decided_block_data", height |-> height],
                 insert_decided_block_data(DB, height, StoreData))

\* Store::prune
Prune(retain_height) ==
    StoreCall([type |-> "prune", retain_height |-> retain_height],
              prune(DB, retain_height))

NextStore ==
    \/ \E h \in StoreHeights, r \in Rounds :
          StoreDecidedValue(h, r) /\ UNCHANGED env_vars
    \/ \E h \in StoreHeights, r \in StoreRounds :
          StoreUndecidedProposal(h, r) /\ UNCHANGED env_vars
    \/ \E h \in StoreHeights, r \in StoreRounds :
          StoreUndecidedBlockData(h, r) /\ UNCHANGED env_vars
    \/ \E h \in StoreHeights : StoreDecidedBlockData(h) /\ UNCHANGED env_vars
    \/ \E h \in 0..(MaxHeight + 1) : Prune(h) /\ UNCHANGED env_vars

SpecStore == InitStore /\ [][NextStore]_vars

\* C9: after prune(retain_height) none of the five tables holds a key whose
\* height is below retain_height, whatever the tables held before
PruneRemovesAllBelow ==
    last.type = "prune" =>
        /\ \A h \in DOMAIN decided_values : h >= last.retain_height
        /\ \A h \in DOMAIN certificates : h >= last.retain_height
        /\ \A h \in DOMAIN decided_block_data : h >= last.retain_height
        /\ \A k \in DOMAIN undecided_proposals : k[1] >= last.retain_height
        /\ \A k \in DOMAIN undecided_block_data : k[1] >= last.retain_height

----------------------------------------------------------------------------
(* The history walked: the engine decides one height after the other, each *)
(* on a value this node proposed                                           *)

NextHistory ==
    \/ AddTransaction(Tx("t1", 1, TRUE)) /\ UNCHANGED env_vars
    \/ \E r \in Rounds :
          /\ current_height = 1      \* later heights are decided in round 0
          /\ StartedRound(current_height, r, ProposerOf(current_height, r))
          /\ UNCHANGED env_vars
    \/ /\ <<current_height, current_round>> \notin DOMAIN undecided_proposals
       /\ GetValue(current_height, current_round)
       /\ UNCHANGED env_vars
    \/ \E r \in Rounds :
          /\ current_height <= MaxDecided
          /\ UNCHANGED env_vars
          /\ Decided(Certificate(current_height, r,
                 IF <<current_height, r>> \in DOMAIN undecided_proposals
                 THEN id(undecided_proposals[<<current_height, r>>].value)
                 ELSE ForeignValueId))

SpecHistory == Init /\ [][NextHistory]_vars

StreamWellFormed ==
    (last.type = "GetValue" /\ status = "running") =>
        LET n == Len(published)
            B == reply.v.value.extensions
            k == (Len(B) + CHUNK_SIZE - 1) \div CHUNK_SIZE
            parts == [i \in 1..(n - 1) |-> published[i].content.part]
        IN  /\ n = k + 3
            /\ \A i \in 1..n :
                  /\ published[i].stream_id = published[1].stream_id
                  /\ published[i].sequence = i - 1
            /\ \A i \in 1..(n - 1) : published[i].content.kind = "Data"
            /\ parts[1] = ProposalInit(last.height, last.round, SelfAddress)
            /\ \A i \in 2..(k + 1) :
                  /\ parts[i].type = "Data"
                  /\ Len(parts[i].bytes) \in 1..CHUNK_SIZE
            /\ ConcatData(parts) = B
            /\ parts[k + 2].type = "Fin"
            /\ verify_proposal_signature(
                   ProposalParts(last.height, last.round, SelfAddress, parts)) = "Ok"
            /\ published[n].content = ContentFin

\* A proposal was streamed at a height above the first, its last chunk short
ProposalStreamed ==
    /\ last.type = "GetValue"
    /\ status = "running"
    /\ last.height > 1
    /\ Len(published) = 5
    /\ Len(published[3].content.part.bytes) < CHUNK_SIZE

----------------------------------------------------------------------------
(* The consensus channel: the engine sends, run() receives in order, and   *)
(* the engine may drop its sender                                          *)

\* The messages the engine sends
LoopMessages ==
    {[type |-> "StartedRound", height |-> h, round |-> r, proposer |-> ProposerOf(h, r)] :
        h \in Heights, r \in Rounds}
    \cup {[type |-> "GetValue", height |-> h, round |-> r] : h \in Heights, r \in Rounds}
    \cup UNION {{[type |-> "Decided", certificate |-> Certificate(h, r, v)] :
                    v \in CertificateValueIds(h, r)} : h \in Heights, r \in Rounds}

\* The engine sends a message (run() still holds the receiver)
Send(msg) ==
    /\ Running
    /\ ~closed
    /\ Len(sent) < MaxSent
    /\ channel' = Append(channel, msg)
    /\ sent' = Append(sent, msg)
    /\ UNCHANGED <<store_vars, app_vars, io_vars, conc_vars, step_vars, closed, handled>>

\* The engine drops its sender
Close ==
    /\ ~closed
    /\ closed' = TRUE
    /\ UNCHANGED <<store_vars, app_vars, io_vars, conc_vars, step_vars, channel, sent, handled>>

\* AppMsg::Decided when the first call of the store returns Err: commit
\* returns it and the handler leaves run() through ?
DecidedFails(certificate) ==
    /\ Running
    /\ Stop("failed", [type |-> "Decided", certificate |-> certificate,
                       committed |-> FALSE])
    /\ UNCHANGED <<store_vars, app_vars, network>>

\* The handler of a message
Handle(msg) ==
    CASE msg.type = "StartedRound" -> StartedRound(msg.height, msg.round, msg.proposer)
      [] msg.type = "GetValue" -> GetValue(msg.height, msg.round)
      [] msg.type = "Decided" ->
            Decided(msg.certificate) \/ DecidedFails(msg.certificate)

\* Mutant of Recv: takes the newest message of the channel
RecvNewest ==
    /\ Running
    /\ channel # <<>>
    /\ Handle(channel[Len(channel)])
    /\ channel' = SubSeq(channel, 1, Len(channel) - 1)
    /\ handled' = Append(handled, channel[Len(channel)])
    /\ UNCHANGED <<conc_vars, step_vars, closed, sent>>

\* while let Some(msg) = channels.consensus.recv().await: the oldest message
Recv ==
    /\ Running
    /\ channel # <<>>
    /\ Handle(Head(channel))
    /\ channel' = Tail(channel)
    /\ handled' = Append(handled, Head(channel))
    /\ UNCHANGED <<conc_vars, step_vars, closed, sent>>

\* recv() returns None once the channel is closed and empty: run() returns
\* Err("Consensus channel closed unexpectedly")
ChannelClosed ==
    /\ Running
    /\ closed
    /\ channel = <<>>
    /\ Stop("failed", [type |-> "Closed"])
    /\ UNCHANGED <<store_vars, app_vars, network, env_vars>>

NextLoop ==
    \/ AddTransaction(Tx("t1", 1, TRUE)) /\ UNCHANGED env_vars
    \/ \E msg \in LoopMessages : Send(msg)
    \/ Close
    \/ Recv
    \/ ChannelClosed

SpecLoop == Init /\ [][NextLoop]_vars

\* C16: StartedRound {h, r, proposer} sets current_height, current_round and
\* current_proposer to h, r and proposer, leaves the store unchanged, and
\* replies with the undecided proposal stored at (h, r), or None without one
StartedRoundReplies ==
    /\ [](last.type = "StartedRound" =>
            /\ current_height = last.height
            /\ current_round = last.round
            /\ current_proposer = Some(last.proposer)
            /\ reply = get_undecided_proposal(DB, last.height, last.round))
    /\ [][last'.type = "StartedRound" => UNCHANGED store_vars]_vars

\* StartedRound came for another height than the node was at, and later for
\* a round where the node's own proposal is stored
StartedRoundReplayed ==
    /\ last.type = "StartedRound"
    /\ reply # None
    /\ reply.v = undecided_proposals[<<last.height, last.round>>]
    /\ \E i \in 1..Len(handled) :
          handled[i].type = "StartedRound" /\ handled[i].height = 2

\* C17: run() returns only when the consensus channel closes or a store
\* operation fails while Decided is handled; a failure while any other
\* message is handled (a correctly signed received proposal whose bytes do
\* not decode, a failed publish) is logged and the loop goes on
LoopSurvivesFailures ==
    status = "failed" => last.type \in {"Decided", "Closed"}

\* C18: GetValue handled while the decided block at current_height - 1 is
\* absent from the store is skipped: no panic, nothing streamed, and the
\* loop goes on with the next message
GetValueSkipsWithoutPrevBlock ==
    (last.type = "GetValue" /\ get_decided_block(DB, current_height - 1) = None) =>
        /\ status = "running"
        /\ published = <<>>

CloseDrainsChannel ==
    (closed /\ status # "running") =>
        /\ status = "failed"
        /\ handled = sent

\* C20 amended: run() never returns Ok; the messages are handled in the order
\* sent, none skipped; run() returns because the channel closed only after
\* every message sent was handled, and otherwise returns from the handler of
\* the message it took last, the later messages staying in the channel
HandledInOrder ==
    /\ sent = handled \o channel
    /\ status \in {"running", "failed", "panicked"}
    /\ last.type = "Closed" => (status = "failed" /\ closed /\ handled = sent)
    /\ (status # "running" /\ last.type # "Closed") =>
          /\ handled # <<>>
          /\ last.type = handled[Len(handled)].type

\* The engine closed the channel with messages in it; run() handled them
\* and then returned the error
RunEndedOnClose ==
    /\ last.type = "Closed"
    /\ status = "failed"
    /\ Len(handled) >= 2

----------------------------------------------------------------------------
(* Sync: the node proposes and decides a few heights while peers send it   *)
(* decided values to decode                                                *)

\* The value bytes a peer may send for a synced value: a value over bytes
\* that are no block, a value whose id is not the hash of its bytes, the
\* value of a block, and bytes that are no value
SyncedBytes ==
    {EncodeValue(ValueNew(Junk)),
     EncodeValue([ValueNew(Junk) EXCEPT !.value = Hash64(<<>>)]),
     EncodeValue(ValueNew(ForgedData(1))),
     Junk}

NextSync ==
    \/ AddTransaction(Tx("t1", 1, TRUE)) /\ UNCHANGED env_vars
    \/ /\ <<current_height, current_round>> \notin DOMAIN undecided_proposals
       /\ GetValue(current_height, current_round)
       /\ UNCHANGED env_vars
    \/ \E v \in CertificateValueIds(current_height, 0) :
          /\ current_height <= MaxHeight
          /\ Decided(Certificate(current_height, 0, v))
          /\ UNCHANGED env_vars
    \/ \E h \in Heights, r \in Rounds, b \in SyncedBytes :
          ProcessSyncedValue(h, r, PeerAddress, b) /\ UNCHANGED env_vars

SpecSync == Init /\ [][NextSync]_vars

----------------------------------------------------------------------------
(* The transaction pool shared by the RPC handlers and the proposer: every *)
(* call is try_lock().unwrap(), the body, and the drop of the guard        *)

\* The proposer (run(), through make_block) and two RPC handlers
PoolThreads == {"app", "rpc1", "rpc2"}

\* The transactions sent to the pool: two of them tie on the gas price, one
\* fails validate()
PoolTransactions ==
    {Tx("t1", 1, TRUE), Tx("t2", 2, TRUE), Tx("t3", 2, TRUE), Tx("t0", 3, FALSE)}

\* The calls a thread makes
PoolCalls(t) ==
    {[op |-> "get_top_transaction", arg |-> None]}
    \cup (IF t = "app" THEN {}
          ELSE {[op |-> "add_transaction", arg |-> Some(tx)] : tx \in PoolTransactions}
               \cup {[op |-> "get_transactions", arg |-> Some(n)] : n \in 0..MaxCount}
               \cup {[op |-> "tx_count", arg |-> None]})

\* A thread between calls, with the transactions it has pushed and received
ThreadOf(t) ==
    IF t \in DOMAIN threads THEN threads[t]
    ELSE [pc |-> "idle", call |-> None, added |-> {}, got |-> {}]

Added == UNION {ThreadOf(t).added : t \in PoolThreads}
Got == UNION {ThreadOf(t).got : t \in PoolThreads}
Range(seq) == {seq[i] : i \in 1..Len(seq)}

\* The frame of a call of the pool
PoolFrame ==
    UNCHANGED <<store_vars, current_height, current_round, current_proposer,
                stream_nonce, streams_map, inserted, status, reply, published,
                network, chan_vars, step_vars>>

\* The call begins. add_transaction returns at once when validate() fails;
\* otherwise try_lock().unwrap() takes the mutex, or panics when another
\* thread holds it or a thread panicked while holding it
TryLock(t, call) ==
    /\ ThreadOf(t).pc = "idle"
    /\ call.op = "add_transaction" => call.arg.v \notin Added
    /\ IF /\ call.op = "add_transaction"
          /\ add_transaction(transaction_pool, call.arg.v) = {transaction_pool}
       THEN /\ last' = [type |-> call.op, thread |-> t, arg |-> call.arg,
                        before |-> transaction_pool, result |-> Unit]
            /\ UNCHANGED <<threads, pool_lock>>
       ELSE IF pool_lock = "free"
       THEN /\ pool_lock' = t
            /\ threads' = Put(threads, t, [ThreadOf(t) EXCEPT !.pc = "locked", !.call = call])
            /\ UNCHANGED last
       ELSE /\ threads' = Put(threads, t, [ThreadOf(t) EXCEPT !.pc = "panicked", !.call = call])
            /\ last' = [type |-> call.op, thread |-> t, arg |-> call.arg,
                        before |-> transaction_pool, result |-> Panicked("try_lock")]
            /\ UNCHANGED pool_lock
    /\ UNCHANGED transaction_pool
    /\ PoolFrame

\* The body of the call under the guard, and the drop of the guard (a panic
\* under the guard poisons the mutex)
Complete(t) ==
    LET th == ThreadOf(t)
        call == th.call
        Done(pool, result, added, got, pc) ==
            /\ transaction_pool' = pool
            /\ last' = [type |-> call.op, thread |-> t, arg |-> call.arg,
                        before |-> transaction_pool, result |-> result]
            /\ threads' = Put(threads, t, [pc |-> pc, call |-> None,
                                           added |-> th.added \cup added,
                                           got |-> th.got \cup got])
            /\ pool_lock' = IF pc = "panicked" THEN "poisoned" ELSE "free"
    IN  /\ th.pc = "locked"
        /\ CASE call.op = "add_transaction" ->
                  \E pool \in add_transaction(transaction_pool, call.arg.v) :
                     Done(pool, Unit, {call.arg.v}, {}, "idle")
             [] call.op = "tx_count" ->
                  Done(transaction_pool, Some(tx_count(transaction_pool)), {}, {}, "idle")
             [] call.op = "get_top_transaction" ->
                  LET r == get_top_transaction(transaction_pool)
                  IN  Done(r.pool, r.result,
                           {}, IF r.result = None THEN {} ELSE {r.result.v}, "idle")
             [] call.op = "get_transactions" ->
                  LET r == get_transactions(transaction_pool, call.arg.v)
                  IN  IF r.result = Panicked("drain")
                      THEN Done(r.pool, r.result, {}, {}, "panicked")
                      ELSE Done(r.pool, r.result, {}, Range(r.result.v), "idle")
        /\ PoolFrame

NextPool ==
    \/ \E t \in PoolThreads : \E call \in PoolCalls(t) : TryLock(t, call)
    \/ \E t \in PoolThreads : Complete(t)

SpecPool == Init /\ [][NextPool]_vars

\* The largest gas price in a pool
MaxGasPrice(pool) ==
    CHOOSE g \in {tx.gas_price : tx \in Range(pool)} :
        \A tx \in Range(pool) : tx.gas_price <= g

\* C11: get_top_transaction removes and returns a transaction whose gas
\* price is the maximum among the transactions in the pool; on an empty pool
\* it returns None and leaves the pool unchanged
TopTransactionIsMaximum ==
    (last.type = "get_top_transaction" /\ last.result # Panicked("try_lock")) =>
        IF last.before = <<>>
        THEN last.result = None /\ transaction_pool = last.before
        ELSE /\ last.result # None
             /\ last.result.v \in Range(last.before)
             /\ last.result.v.gas_price = MaxGasPrice(last.before)
             /\ Len(transaction_pool) = Len(last.before) - 1
             /\ Range(transaction_pool) = Range(last.before) \ {last.result.v}

\* C12: every transaction in the pool satisfies validate(); add_transaction
\* of a transaction failing validate() leaves the pool unchanged and reports
\* no error
PoolHoldsValidTransactions ==
    /\ \A i \in 1..Len(transaction_pool) : validate(transaction_pool[i])
    /\ (last.type = "add_transaction" /\ ~validate(last.arg.v)) =>
          /\ transaction_pool = last.before
          /\ last.result = Unit

\* A transaction failing validate() was sent to a pool that holds transactions
InvalidTransactionDropped ==
    /\ last.type = "add_transaction"
    /\ ~validate(last.arg.v)
    /\ last.result = Unit
    /\ Len(transaction_pool) > 0

\* C13: under every interleaving of the calls of the pool each call completes:
\* none panics at try_lock because the mutex is taken, and the transactions
\* pushed are exactly those still in the pool and those handed out, each once
PoolCallsAtomic ==
    /\ \A t \in PoolThreads : ThreadOf(t).pc # "panicked"
    /\ last.type # "Start" => last.result # Panicked("try_lock")
    /\ Len(transaction_pool) = Cardinality(Range(transaction_pool))
    /\ Added = Range(transaction_pool) \cup Got
    /\ Range(transaction_pool) \cap Got = {}
    /\ \A t, u \in PoolThreads : t # u => ThreadOf(t).got \cap ThreadOf(u).got = {}

\* The n transactions of highest gas price, as sets of that size
TopSets(pool, n) ==
    {S \in SUBSET Range(pool) :
        /\ Cardinality(S) = n
        /\ \A x \in S, y \in Range(pool) \ S : x.gas_price >= y.gas_price}

\* C14: get_transactions(n) never fails; it removes and returns
\* min(n, count()) transactions, those of highest gas price
DrainReturnsTop ==
    (last.type = "get_transactions" /\ last.result # Panicked("try_lock")) =>
        /\ last.result.kind = "Some"
        /\ Len(last.result.v) = Min({last.arg.v, Len(last.before)})
        /\ Range(last.result.v) \in TopSets(last.before, Len(last.result.v))
        /\ Range(transaction_pool) = Range(last.before) \ Range(last.result.v)
        /\ Len(transaction_pool) = Len(last.before) - Len(last.result.v)

----------------------------------------------------------------------------
(* Queries on the decided history: values are decided and pruned, the      *)
(* engine and the RPC clients ask for its ends                             *)

NextQuery ==
    \/ \E h \in StoreHeights, r \in Rounds :
          StoreDecidedValue(h, r) /\ UNCHANGED env_vars
    \/ \E h \in StoreHeights : StoreDecidedBlockData(h) /\ UNCHANGED env_vars
    \/ \E h \in 0..(MaxHeight + 1) : Prune(h) /\ UNCHANGED env_vars
    \/ GetHistoryMinHeight /\ UNCHANGED env_vars
    \/ BlockNumber /\ UNCHANGED env_vars

SpecQuery == InitStore /\ [][NextQuery]_vars

\* C23: blockNumber returns the greatest height of the decided values table,
\* and 0 when no value has been decided
BlockNumberIsMaxDecided ==
    last.type = "blockNumber" =>
        /\ \A h \in DOMAIN decided_values : h <= reply.v
        /\ reply.v \in DOMAIN decided_values \cup {0}
        /\ DOMAIN decided_values = {} => reply.v = 0

\* C25: GetHistoryMinHeight replies with the least height of the decided
\* values table, a height whose decided value get_decided_value returns; when
\* the table is empty it replies with the initial height 1
HistoryMinHeightIsLeast ==
    last.type = "GetHistoryMinHeight" =>
        IF DOMAIN decided_values = {} THEN reply.v = 1
        ELSE /\ reply.v \in DOMAIN decided_values
             /\ \A h \in DOMAIN decided_values : reply.v <= h
             /\ get_decided_value(DB, reply.v) # None

\* The least decided height was asked for while it is above the first
\* height and block data is stored
HistoryMinHeightAfterPrune ==
    /\ last.type = "GetHistoryMinHeight"
    /\ reply.v > 1
    /\ reply.v \in DOMAIN decided_values
    /\ DOMAIN decided_block_data # {}

----------------------------------------------------------------------------
(* Transactions on their way from the pool into blocks *)

\* The transactions of an encoded block
TransactionsOf(bytes) == IF DecodeOk(bytes) THEN Range(Decode(bytes).transactions) ELSE {}

\* C22: the transaction GetValue(h, r) pops from the pool is persisted: once
\* GetValue has replied, the block bytes stored as undecided block data at
\* (h, r) contain it
PoppedTransactionPersisted ==
    (last.type = "GetValue" /\ status = "running") =>
        /\ <<last.height, last.round>> \in DOMAIN undecided_block_data
        /\ TransactionsOf(reply.v.value.extensions)
             \subseteq TransactionsOf(undecided_block_data[<<last.height, last.round>>])


----------------------------------------------------------------------------
(* The blob RPC beside the running node *)

BlobIndices == 0..BLOBS_PER_TX
SamplingSeeds == {None, Some(1)}

\* Block data this node did not write (bytes that are not a Block)
CorruptBlock(height) ==
    /\ Running
    /\ height \notin DOMAIN decided_block_data
    /\ StoreCall([type |-> "corrupt", height |-> height],
                 insert_decided_block_data(DB, height, Junk))

NextRpc ==
    \/ AddTransaction(Tx("t1", 1, TRUE)) /\ UNCHANGED env_vars
    \/ /\ <<current_height, current_round>> \notin DOMAIN undecided_proposals
       /\ GetValue(current_height, current_round)
       /\ UNCHANGED env_vars
    \/ \E v \in CertificateValueIds(current_height, 0) :
          /\ current_height <= MaxHeight
          /\ Decided(Certificate(current_height, 0, v))
          /\ UNCHANGED env_vars
    \/ \E h \in 1..(MaxHeight + 1) : CorruptBlock(h) /\ UNCHANGED env_vars
    \/ \E h \in 0..(MaxHeight + 1), i \in BlobIndices :
          GetBlob(h, i) /\ UNCHANGED env_vars
    \/ \E h \in 0..(MaxHeight + 1), i \in BlobIndices, seed \in SamplingSeeds :
          SampleBlob(h, i, seed) /\ UNCHANGED env_vars

SpecRpc == Init /\ [][NextRpc]_vars

\* The request in last cannot be served from the store db
BlobUnavailable(db, msg) ==
    \/ get_decided_block(db, msg.height) = None
    \/ ~DecodeOk(get_decided_block(db, msg.height).v)
    \/ msg.blob_index >= Len(blobs(Decode(get_decided_block(db, msg.height).v)))

\* C24: sampleBlob and getBlob called with a height that has no decided block,
\* with stored bytes that do not decode as a Block, or with blob_index at or
\* beyond the number of blobs in the block return a JSON-RPC error with code
\* -32603; the node keeps running and the store and the pool are unchanged
BlobErrorsNotFatal ==
    [][(/\ last'.type \in {"sampleBlob", "getBlob"}
        /\ <<last, reply>>' # <<last, reply>>
        /\ BlobUnavailable(DB, last'))
       => /\ reply'.ok = FALSE
          /\ reply'.code = -32603
          /\ status' = "running"
          /\ UNCHANGED <<store_vars, transaction_pool>>]_vars

\* A request for the index just past the last blob of a decided block that has
\* blobs was refused, in a store that also holds bytes that do not decode
BlobErrorsAnswered ==
    /\ last.type \in {"sampleBlob", "getBlob"}
    /\ reply.ok = FALSE
    /\ reply.message = "Blob index out of bounds"
    /\ last.height \in DOMAIN decided_block_data
    /\ last.blob_index = Len(blobs(Decode(decided_block_data[last.height])))
    /\ last.blob_index > 0
    /\ \E h \in DOMAIN decided_block_data : ~DecodeOk(decided_block_data[h])


----------------------------------------------------------------------------
(* The undecided tables written twice at one key *)

\* Two proposers and two byte strings, so that a second write differs
WriteProposers == {"a1", PeerAddress}
WriteData == {StoreData, Junk}
WriteHeights == {0, MaxHeight}
WriteRounds == {Nil, 0}

\* Store::store_undecided_proposal
StoreUndecidedProposalOf(height, round, proposer) ==
    /\ Entries < MaxEntries \/ <<height, round>> \in DOMAIN undecided_proposals
    /\ StoreCall([type |-> "store_undecided_proposal", height |-> height, round |-> round,
                  proposal |-> ProposedValue(height, round, proposer, ValueNew(StoreData))],
                 insert_undecided_proposal(DB,
                     ProposedValue(height, round, proposer, ValueNew(StoreData))))

\* Store::store_undecided_block_data
StoreUndecidedBlockDataOf(height, round, data) ==
    /\ Entries < MaxEntries \/ <<height, round>> \in DOMAIN undecided_block_data
    /\ StoreCall([type |-> "store_undecided_block_data", height |-> height, round |-> round,
                  data |-> data],
                 insert_undecided_block_data(DB, height, round, data))

NextWrite ==
    \/ \E h \in WriteHeights, r \in WriteRounds, p \in WriteProposers :
          StoreUndecidedProposalOf(h, r, p) /\ UNCHANGED env_vars
    \/ \E h \in WriteHeights, r \in WriteRounds, d \in WriteData :
          StoreUndecidedBlockDataOf(h, r, d) /\ UNCHANGED env_vars
    \/ \E h \in 0..(MaxHeight + 1) : Prune(h) /\ UNCHANGED env_vars

SpecWrite == InitStore /\ [][NextWrite]_vars

\* C26: store_undecided_proposal and store_undecided_block_data are
\* first-write-wins and idempotent: a call at a key (h, r) that is present
\* leaves the tables as they were, a call at an absent key stores its argument,
\* and an entry that stays in its table never changes, so
\* get_undecided_proposal(h, r) is the first proposal stored at (h, r) until
\* it is pruned
UndecidedFirstWriteWins ==
    [][/\ \A k \in DOMAIN undecided_proposals \cap DOMAIN undecided_proposals' :
             undecided_proposals'[k] = undecided_proposals[k]
       /\ \A k \in DOMAIN undecided_block_data \cap DOMAIN undecided_block_data' :
             undecided_block_data'[k] = undecided_block_data[k]
       /\ last'.type = "store_undecided_proposal" =>
             IF <<last'.height, last'.round>> \in DOMAIN undecided_proposals
             THEN UNCHANGED store_vars
             ELSE Get(undecided_proposals', <<last'.height, last'.round>>)
                      = Some(last'.proposal)
       /\ last'.type = "store_undecided_block_data" =>
             IF <<last'.height, last'.round>> \in DOMAIN undecided_block_data
             THEN UNCHANGED store_vars
             ELSE undecided_block_data'[<<last'.height, last'.round>>] = last'.data]_vars

\* A second, different proposal and different bytes were written at keys that
\* were taken, and the tables hold what was written first
SecondWriteIgnored ==
    /\ last.type = "store_undecided_proposal"
    /\ get_undecided_proposal(DB, last.height, last.round) # None
    /\ get_undecided_proposal(DB, last.height, last.round) # Some(last.proposal)
    /\ \E k \in DOMAIN undecided_block_data : undecided_block_data[k] = Junk
    /\ \E k \in DOMAIN undecided_block_data : undecided_block_data[k] = StoreData


----------------------------------------------------------------------------
(* Height arithmetic *)

\* Height(u64), at a width of HeightBits bits
HeightBits == 4
HeightModulus == 2 ^ HeightBits
HeightValues == 0..(HeightModulus - 1)

\* impl Sub<u64> for Height, impl Sub for Height: Self(self.0 - other), which
\* panics on underflow with overflow checks on and wraps with them off
HeightSubOutcomes(h, n) ==
    IF h >= n THEN {Some(h - n)}
    ELSE {Panicked("attempt to subtract with overflow"), Some((h - n) % HeightModulus)}

\* Height::decrement: checked_sub(1)
decrement(h) == IF h >= 1 THEN Some(h - 1) ELSE None

\* Height::decrement_by: Some(saturating_sub(n))
decrement_by(h, n) == Some(IF h >= n THEN h - n ELSE 0)

\* An operation of Height evaluated: last is the call, reply its outcome
HeightCall(msg, outcome) ==
    /\ last' = msg
    /\ reply' = outcome
    /\ UNCHANGED <<store_vars, app_vars, status, published, network>>

HeightSub(h, n) ==
    \E outcome \in HeightSubOutcomes(h, n) :
        HeightCall([type |-> "sub", h |-> h, n |-> n], outcome)

HeightDecrement(h) == HeightCall([type |-> "decrement", h |-> h, n |-> 1], decrement(h))

HeightDecrementBy(h, n) ==
    HeightCall([type |-> "decrement_by", h |-> h, n |-> n], decrement_by(h, n))

HeightDefaultCall == HeightCall([type |-> "default", h |-> 0, n |-> 0], Some(HeightDefault))

NextArith ==
    \/ \E h \in HeightValues, n \in HeightValues : HeightSub(h, n) /\ UNCHANGED env_vars
    \/ \E h \in HeightValues : HeightDecrement(h) /\ UNCHANGED env_vars
    \/ \E h \in HeightValues, n \in HeightValues :
          HeightDecrementBy(h, n) /\ UNCHANGED env_vars
    \/ HeightDefaultCall /\ UNCHANGED env_vars

SpecHeight == InitStore /\ [][NextArith]_vars

\* C27: height subtraction saturates: for every height h and every n, h - n is
\* max(h - n, 0), with no underflow, wrap or panic (current_height - 1 at
\* height 0 included), and the default height is 1
HeightSubSaturates ==
    /\ last.type \in {"sub", "decrement_by"} =>
           reply = Some(IF last.h >= last.n THEN last.h - last.n ELSE 0)
    /\ last.type = "default" => reply = Some(1)


----------------------------------------------------------------------------
(* Block validation against the clock and the parent *)

\* Wall clock readings late enough for a block to be 601 seconds behind
ClockValues == {Now + MAX_TIMESTAMP_DRIFT + 1, Now + MAX_TIMESTAMP_DRIFT + 2}

\* Distances of a block's timestamp from the clock, around both ends of the window
ClockOffsets ==
    {-(MAX_TIMESTAMP_DRIFT + 1), -MAX_TIMESTAMP_DRIFT, 1 - MAX_TIMESTAMP_DRIFT, -1, 0, 1,
     MAX_TIMESTAMP_DRIFT - 1, MAX_TIMESTAMP_DRIFT, MAX_TIMESTAMP_DRIFT + 1}

\* Distances of the parent's timestamp from the block's
ParentOffsets == {-2, -1, 0, 1}

\* The parent, and a block built on it by a peer
ParentAt(timestamp) == BlockNew(0, timestamp, ZeroHash, "a0", <<>>)
ChildAt(timestamp, parent) ==
    BlockNew(1, timestamp, parent.block_hash, PeerAddress, <<Tx("t1", 1, TRUE)>>)

\* block.is_valid(expected_height, &prev_block) evaluated at clock reading now
IsValidCall(timestamp, parent_timestamp, expected_height, now) ==
    LET prev_block == ParentAt(parent_timestamp)
        block == ChildAt(timestamp, prev_block)
    IN  /\ last' = [type |-> "is_valid", block |-> block, prev |-> prev_block,
                    expected_height |-> expected_height, now |-> now]
        /\ reply' = Some(is_valid(block, expected_height, prev_block, now))
        /\ UNCHANGED <<store_vars, app_vars, status, published, network>>

NextValid ==
    \E now \in ClockValues, d \in ClockOffsets, p \in ParentOffsets, h \in Heights :
        IsValidCall(now + d, now + d + p, h, now) /\ UNCHANGED env_vars

SpecValid == InitStore /\ [][NextValid]_vars

\* C28: is_valid is false whenever the block's timestamp is below its parent's
\* or more than 600 seconds from the clock (now - 601 and parent - 1 are
\* rejected), and a block that is otherwise valid, with timestamp at or above
\* the parent's and at most 600 seconds from the clock, is accepted, both
\* boundaries included
TimestampWindow ==
    last.type = "is_valid" =>
        /\ (\/ last.block.timestamp < last.prev.timestamp
            \/ Abs(last.block.timestamp - last.now) > 600)
           => reply = Some(FALSE)
        /\ (/\ last.block.timestamp >= last.prev.timestamp
            /\ Abs(last.block.timestamp - last.now) <= 600
            /\ last.block.block_number = last.expected_height)
           => reply = Some(TRUE)

\* A block exactly 600 seconds behind the clock with its parent's timestamp was
\* accepted
TimestampBoundaryAccepted ==
    /\ last.type = "is_valid"
    /\ reply = Some(TRUE)
    /\ last.block.timestamp = last.prev.timestamp
    /\ last.now - last.block.timestamp = 600


----------------------------------------------------------------------------
(* A stream that never ends, while the history is walked *)

NextStale ==
    \/ /\ transaction_pool = <<>>
       /\ AddTransaction(Tx("t1", 1, TRUE))
       /\ UNCHANGED env_vars
    \/ /\ current_height = 1
       /\ PeerStreams("nofin", 1, 0, ForgedData(1))
       /\ UNCHANGED env_vars
    \/ \E m \in network :
          InOrder(m) /\ ReceivedProposalPart(m.from, m.msg) /\ UNCHANGED env_vars
    \/ /\ <<current_height, current_round>> \notin DOMAIN undecided_proposals
       /\ GetValue(current_height, current_round)
       /\ UNCHANGED env_vars
    \/ /\ current_height <= MaxDecided
       /\ <<current_height, 0>> \in DOMAIN undecided_proposals
       /\ Decided(Certificate(current_height, 0,
                              id(undecided_proposals[<<current_height, 0>>].value)))
       /\ UNCHANGED env_vars

SpecStale == Init /\ [][NextStale]_vars

\* The heights named by the Init parts of the streams that are being reassembled
IncompleteStreamHeights ==
    {streams_map.streams[key].init.v.height :
        key \in {k \in DOMAIN streams_map.streams : streams_map.streams[k].init # None}}

\* C29: after a Decided event at height h is handled, the streams map holds no
\* incomplete stream whose Init height is below the retain height
\* h - MAX_HISTORY_LENGTH
StaleStreamsReclaimed ==
    (last.type = "Decided" /\ current_height = last.certificate.height + 1) =>
        \A h \in IncompleteStreamHeights :
            h >= SatSub(last.certificate.height, MAX_HISTORY_LENGTH)


----------------------------------------------------------------------------
(* Votes and their bincode encoding *)

\* Vote::new_prevote, Vote::new_precommit: no extension
Vote(typ, height, round, value, validator_address) ==
    [typ |-> typ, height |-> height, round |-> round, value |-> value,
     validator_address |-> validator_address, extension |-> None]

\* transmute::<VoteType, u8> and back
VoteTypeToU8(typ) == IF typ = "Prevote" THEN 0 ELSE 1
U8ToVoteType(b) == IF b = 0 THEN "Prevote" ELSE "Precommit"

\* Round::as_u32: None for Nil
as_u32(round) == IF round = Nil THEN None ELSE Some(round)

\* bincode of an Option: a tag unit, then the payload when it is Some
EncodeOption(opt, tag) ==
    IF opt = None THEN <<[tag |-> "none"]>>
    ELSE <<[tag |-> "some"], [tag |-> tag, v |-> opt.v]>>

\* Option::<T>::decode at position i: the option read and the position after it
DecodeOption(bytes, i, tag) ==
    IF i > Len(bytes) THEN [ok |-> FALSE]
    ELSE IF bytes[i].tag = "none" THEN [ok |-> TRUE, opt |-> None, next |-> i + 1]
    ELSE IF bytes[i].tag = "some" /\ i + 1 <= Len(bytes) /\ bytes[i + 1].tag = tag
    THEN [ok |-> TRUE, opt |-> Some(bytes[i + 1].v), next |-> i + 2]
    ELSE [ok |-> FALSE]

\* Encode with the round written as a bare u32
EncodeVoteBareRound(vote) ==
    <<[tag |-> "u64", v |-> vote.height]>>
    \o <<[tag |-> "u32", v |-> vote.round]>>
    \o <<[tag |-> "u8", v |-> VoteTypeToU8(vote.typ)]>>
    \o <<[tag |-> "u8x20", v |-> vote.validator_address]>>
    \o EncodeOption(vote.value, "u64")

\* impl Encode for Vote: height, round, type, address, value; no extension
EncodeVote(vote) ==
    <<[tag |-> "u64", v |-> vote.height]>>
    \o EncodeOption(as_u32(vote.round), "u32")
    \o <<[tag |-> "u8", v |-> VoteTypeToU8(vote.typ)]>>
    \o <<[tag |-> "u8x20", v |-> vote.validator_address]>>
    \o EncodeOption(vote.value, "u64")

\* impl Decode for Vote: Err when a read does not find what it expects
DecodeVote(bytes) ==
    LET round == DecodeOption(bytes, 2, "u32")
        t == IF round.ok THEN round.next ELSE 0
        value == DecodeOption(bytes, t + 2, "u64")
    IN  IF /\ Len(bytes) >= 1 /\ bytes[1].tag = "u64"
           /\ round.ok
           /\ Len(bytes) >= t + 1 /\ bytes[t].tag = "u8" /\ bytes[t + 1].tag = "u8x20"
           /\ value.ok
        THEN [ok |-> TRUE,
              v |-> [typ |-> U8ToVoteType(bytes[t].v),
                     height |-> bytes[1].v,
                     round |-> IF round.opt = None THEN Nil ELSE round.opt.v,
                     value |-> value.opt,
                     validator_address |-> bytes[t + 1].v,
                     extension |-> None]]
        ELSE [ok |-> FALSE]

VoteTypes == {"Prevote", "Precommit"}
VoteValues == {None, Some(3), Some(4)}
VoteAddresses == {"a0", SelfAddress, PeerAddress}
Votes ==
    {Vote(t, h, r, v, a) : t \in VoteTypes, h \in 0..MaxHeight, r \in StoreRounds,
                           v \in VoteValues, a \in VoteAddresses}

\* bincode::decode_from_slice(&bincode::encode_to_vec(&vote, standard()), standard())
VoteRoundTrip(vote) ==
    /\ last' = [type |-> "vote_roundtrip", vote |-> vote]
    /\ reply' = DecodeVote(EncodeVote(vote))
    /\ UNCHANGED <<store_vars, app_vars, status, published, network>>

NextVote == \E vote \in Votes : VoteRoundTrip(vote) /\ UNCHANGED env_vars

SpecVote == InitStore /\ [][NextVote]_vars

\* C30: for every vote without extension (either type, any height, any round
\* with Nil among them, value Nil or Val(id), any address), decoding the bincode
\* encoding of the vote succeeds and yields the vote
VoteBincodeRoundTrip ==
    last.type = "vote_roundtrip" => reply = [ok |-> TRUE, v |-> last.vote]

\* A precommit for Nil at round Nil went through the round trip
NilVoteRoundTripped ==
    /\ last.type = "vote_roundtrip"
    /\ last.vote.round = Nil
    /\ last.vote.value = None
    /\ last.vote.typ = "Precommit"
    /\ reply.ok


----------------------------------------------------------------------------
(* Streams that do not begin with Init *)

NextNoInit ==
    \/ \E h \in Heights, r \in Rounds :
          PeerStreams("noinit", h, r, ForgedData(h)) /\ UNCHANGED env_vars
    \/ \E m \in network : ReceivedProposalPart(m.from, m.msg) /\ UNCHANGED env_vars

SpecNoInit == Init /\ [][NextNoInit]_vars

\* C31: a stream whose part at sequence 0 is not an Init part never completes:
\* every insert of one of its messages returns None, the handler answers None
\* and the node keeps running with its store unchanged, the entry is dropped
\* when the part at sequence 0 is read, and no ProposalParts is produced for
\* the (peer, stream id), also once its Fin has arrived
StreamWithoutInitDropped ==
    [][last'.type = "ReceivedProposalPart" =>
          /\ last'.parts = None
          /\ reply' = None
          /\ status' = "running"
          /\ UNCHANGED store_vars
          /\ \A key \in DOMAIN inserted' : inserted'[key].somes = 0
          /\ (last' # last /\ last'.part.sequence = 0) =>
                 <<last'.from, last'.part.stream_id>> \notin DOMAIN streams_map'.streams]_vars

\* Every message of such a stream has arrived, Fin among them, the part at
\* sequence 0 last, and nothing is left of the stream
StreamWithoutInitReceived ==
    /\ last.type = "ReceivedProposalPart"
    /\ last.part.sequence = 0
    /\ last.part.content.kind = "Data"
    /\ last.part.content.part.type = "Data"
    /\ inserted[<<last.from, last.part.stream_id>>].seqs
           = SeqsOf(<<last.from, last.part.stream_id>>)
    /\ streams_map.streams = EmptyMap
    /\ streams_map.finalized = {}


----------------------------------------------------------------------------
(* The length of the history kept *)

\* C32: the store keeps at most MAX_HISTORY_LENGTH blocks of history: after
\* any sequence of in-order Decided events the decided values table and the
\* decided block data table hold at most MAX_HISTORY_LENGTH heights each
HistoryAtMostMax ==
    /\ Cardinality(DOMAIN decided_values) <= MAX_HISTORY_LENGTH
    /\ Cardinality(DOMAIN decided_block_data) <= MAX_HISTORY_LENGTH


----------------------------------------------------------------------------
(* What GetValue announces and what the store holds *)

\* C33: after GetValue(h, r) replies with value v and streams the block bytes
\* B, get_undecided_proposal(h, r) holds a proposal whose value id is that of
\* v and get_block_data(h, r) returns B, also when (h, r) held an entry before
ProposedValueIsStored ==
    (last.type = "GetValue" /\ status = "running" /\ reply.kind = "Some") =>
        /\ get_undecided_proposal(DB, last.height, last.round) # None
        /\ id(get_undecided_proposal(DB, last.height, last.round).v.value) = id(reply.v.value)
        /\ get_block_data(DB, last.height, last.round) = Some(reply.v.value.extensions)


----------------------------------------------------------------------------
(* The decided value and the decided block of a height *)

\* C34: for every height present in both decided_values and
\* decided_block_data, the value id stored at the height is the hash of the
\* block bytes stored at the height, also after two Decided events for the
\* same height
DecidedValueMatchesBlock ==
    \A h \in DOMAIN decided_values \cap DOMAIN decided_block_data :
        id(decided_values[h]) = id(ValueNew(decided_block_data[h]))


----------------------------------------------------------------------------
(* The commit of a Decided event, one store transaction at a time, beside *)
(* the RPC handlers that read the store                                   *)

Idle == commit_pc.at = "idle"
CommitFrame ==
    UNCHANGED <<current_proposer, stream_nonce, streams_map, inserted,
                transaction_pool, network, conc_vars, chan_vars>>

\* commit up to store_decided_value: its write transaction has committed
CommitValue(certificate) ==
    LET proposal == get_undecided_proposal(DB, certificate.height, certificate.round)
    IN  /\ Running /\ Idle
        /\ proposal # None
        /\ SetDb(insert_decided_value(DB, proposal.v.value, certificate))
        /\ commit_pc' = [at |-> "value_stored", certificate |-> certificate]
        /\ UNCHANGED <<current_height, current_round, io_vars>>
        /\ CommitFrame

\* get_block_data, then store_decided_block_data in a transaction of its own
CommitBlockData ==
    LET certificate == commit_pc.certificate
        block_data == get_block_data(DB, certificate.height, certificate.round)
    IN  /\ Running /\ ~Idle
        /\ commit_pc.at = "value_stored"
        /\ SetDb(IF block_data = None THEN DB
                 ELSE insert_decided_block_data(DB, certificate.height, block_data.v))
        /\ commit_pc' = [commit_pc EXCEPT !.at = "block_stored"]
        /\ UNCHANGED <<current_height, current_round, io_vars>>
        /\ CommitFrame

\* store.prune(retain_height), the next height, and the reply of the handler
CommitPrune ==
    LET certificate == commit_pc.certificate
    IN  /\ Running /\ ~Idle
        /\ commit_pc.at = "block_stored"
        /\ SetDb(prune(DB, SatSub(certificate.height, MAX_HISTORY_LENGTH)))
        /\ commit_pc' = [at |-> "idle"]
        /\ current_height' = NextHeight(current_height, certificate)
        /\ current_round' = 0
        /\ Replied([type |-> "Decided", certificate |-> certificate, committed |-> TRUE],
                   [kind |-> "StartHeight",
                    height |-> NextHeight(current_height, certificate),
                    validator_set |-> ValidatorSet])
        /\ CommitFrame

NextCommit ==
    \/ /\ transaction_pool = <<>>
       /\ AddTransaction(Tx("t1", 1, TRUE))
       /\ UNCHANGED env_vars
    \/ /\ Idle
       /\ <<current_height, current_round>> \notin DOMAIN undecided_proposals
       /\ GetValue(current_height, current_round)
       /\ UNCHANGED env_vars
    \/ \E v \in CertificateValueIds(current_height, 0) :
          current_height <= MaxHeight /\ CommitValue(Certificate(current_height, 0, v))
    \/ CommitBlockData
    \/ CommitPrune
    \/ BlockNumber /\ UNCHANGED env_vars
    \/ \E h \in 0..MaxHeight, i \in {0, BLOBS_PER_TX} : GetBlob(h, i) /\ UNCHANGED env_vars

SpecCommit == Init /\ [][NextCommit]_vars

\* C35: a reader running beside the app loop never finds a decided value at a
\* height without the decided block data of the height: whenever
\* get_decided_value(h) is present get_decided_block(h) is present too, at
\* every point of a commit
DecidedValueHasBlock ==
    \A h \in 0..(MaxHeight + 1) :
        get_decided_value(DB, h) # None => get_decided_block(DB, h) # None


----------------------------------------------------------------------------
(* The key a received proposal is stored under *)

\* C36: a proposal ReceivedProposalPart stores under (h, r), the height and
\* round of the Init part of its stream, holds a block whose block_number is
\* h and which is valid on the decided block of h - 1, also when h is above
\* current_height
ReceivedProposalMatchesKey ==
    (last.type = "ReceivedProposalPart" /\ last.outcome = "stored") =>
        LET block == Decode(assemble_value_from_parts(last.parts.v).data)
            h == last.parts.v.height
            prev == get_decided_block(DB, h - 1)
        IN  /\ block.block_number = h
            /\ prev # None
            /\ is_valid(block, h, Decode(prev.v), Now)


----------------------------------------------------------------------------
(* Every message of the engine that carries a reply handle *)

\* AppMsg::GetValidatorSet
GetValidatorSet(height) ==
    /\ Running
    /\ Replied([type |-> "GetValidatorSet", height |-> height], Some(ValidatorSet))
    /\ UNCHANGED <<store_vars, app_vars, network>>

\* AppMsg::ExtendVote
ExtendVote ==
    /\ Running
    /\ Replied([type |-> "ExtendVote"], None)
    /\ UNCHANGED <<store_vars, app_vars, network>>

\* AppMsg::VerifyVoteExtension
VerifyVoteExtension ==
    /\ Running
    /\ Replied([type |-> "VerifyVoteExtension"], Unit)
    /\ UNCHANGED <<store_vars, app_vars, network>>

ReplyMessages ==
    {"ConsensusReady", "StartedRound", "GetValue", "ReceivedProposalPart",
     "GetValidatorSet", "Decided", "ProcessSyncedValue", "GetDecidedValue",
     "GetHistoryMinHeight", "ExtendVote", "VerifyVoteExtension"}

NextReplies ==
    \/ /\ transaction_pool = <<>>
       /\ AddTransaction(Tx("t1", 1, TRUE))
       /\ UNCHANGED env_vars
    \/ ConsensusReady /\ UNCHANGED env_vars
    \/ StartedRound(current_height, 0, ProposerOf(current_height, 0)) /\ UNCHANGED env_vars
    \/ /\ <<current_height, current_round>> \notin DOMAIN undecided_proposals
       /\ GetValue(current_height, current_round)
       /\ UNCHANGED env_vars
    \/ /\ current_height = 1
       /\ PeerStreams("signed", 1, 1, ForgedData(1))
       /\ UNCHANGED env_vars
    \/ \E m \in network :
          InOrder(m) /\ ReceivedProposalPart(m.from, m.msg) /\ UNCHANGED env_vars
    \/ GetValidatorSet(current_height) /\ UNCHANGED env_vars
    \/ \E r \in Rounds : \E v \in CertificateValueIds(current_height, r) :
          /\ current_height <= MaxHeight
          /\ Decided(Certificate(current_height, r, v))
          /\ UNCHANGED env_vars
    \/ \E b \in {EncodeValue(ValueNew(Junk)), Junk} :
          ProcessSyncedValue(current_height, 0, PeerAddress, b) /\ UNCHANGED env_vars
    \/ \E h \in {1, MaxHeight} : GetDecidedValue(h) /\ UNCHANGED env_vars
    \/ GetHistoryMinHeight /\ UNCHANGED env_vars
    \/ ExtendVote /\ UNCHANGED env_vars
    \/ VerifyVoteExtension /\ UNCHANGED env_vars

SpecReplies == Init /\ [][NextReplies]_vars

\* C37: for every message of the engine that carries a reply handle, as long
\* as run() has not ended, the handler has sent its reply on the handle when
\* the next message is taken: a handler that leaves run() running has replied
EveryMessageAnswered ==
    [][(/\ last'.type \in ReplyMessages
        /\ <<last, reply, store_vars, app_vars>>' # <<last, reply, store_vars, app_vars>>
        /\ status' = "running")
       => reply' # NoReply]_vars

\* A Decided event that found no proposal was answered with StartHeight, and a
\* received proposal part that completed nothing was answered with None
SkippedDecidedAnswered ==
    /\ last.type = "Decided"
    /\ ~last.committed
    /\ reply.kind = "StartHeight"
    /\ streams_map.streams # EmptyMap


----------------------------------------------------------------------------
(* Proposals streamed one after the other, for as long as the nonce lasts *)

NextNonce ==
    \/ /\ transaction_pool = <<>>
       /\ AddTransaction(Tx("t1", 1, TRUE))
       /\ UNCHANGED env_vars
    \/ \E r \in Rounds : StartedRound(1, r, ProposerOf(1, r)) /\ UNCHANGED env_vars
    \/ GetValue(current_height, current_round) /\ UNCHANGED env_vars

SpecNonce == Init /\ [][NextNonce]_vars

\* C38: stream ids are fresh: with every proposal GetValue publishes, also at
\* a (height, round) it has published for before, the stream nonce grows, so
\* that it never wraps or repeats and no two published proposals carry the
\* same stream id
StreamNonceFresh ==
    [][(last'.type = "GetValue" /\ published' # <<>> /\ published' # published)
       => /\ stream_nonce' > stream_nonce
          /\ published'[1].stream_id = stream_id(current_height, current_round, stream_nonce)]_vars


----------------------------------------------------------------------------
(* Catching up: a synced value, then its decision *)

\* C39: a lagging node catches up through sync: when ProcessSyncedValue for
\* (h, r) was handled at current_height = h and the engine then sends
\* Decided with a certificate for (h, r) and the synced value's id, the
\* decided value of h is stored and the node moves to height h + 1
SyncedValueDecided ==
    [][(/\ last.type = "ProcessSyncedValue"
        /\ status = "running"
        /\ last.height = current_height
        /\ last'.type = "Decided"
        /\ last'.certificate.height = last.height
        /\ last'.certificate.round = last.round
        /\ last'.certificate.value_id = id(decode_value(last.value_bytes)))
       => /\ Get(decided_values', last.height) # None
          /\ current_height' = last.height + 1]_vars

====
